---- MODULE Spec2Model ----
(***************************************************************************)
(* A model of the Hasura MCP server: the process-wide introspection schema *)
(* cache of index.ts (makeGqlRequest, getIntrospectionSchema, main) and    *)
(* the passthrough tools run_graphql_query (three variants) and            *)
(* run_graphql_mutation.                                                   *)
(*                                                                         *)
(* Conventions.  A JavaScript string is a sequence of pieces: a GraphQL    *)
(* document is a sequence of characters, a message is a sequence of the    *)
(* literal and interpolated parts of its template, so that concatenation   *)
(* is \o and the empty string is << >>.  A JSON value is a record tagged   *)
(* by "kind".  An object reference is a record [ref, obj]: two objects     *)
(* with equal contents from two responses are different references.        *)
(***************************************************************************)
EXTENDS Integers, Sequences, FiniteSets, TLC

\* ------------------------------------------------------------------ bounds

\* Tool calls the transport may have in flight at once (callers 1..NumCallers;
\* caller 0 is main's start-up call).
NumCallers == 2

\* Cap on the introspection requests of one run.
MaxFetches == 3

\* ------------------------------------------------------------- JSON values

JNull == [kind |-> "null"]

Undefined == [kind |-> "undefined"]

JNum(n) == [kind |-> "number", val |-> n]

JBool(b) == [kind |-> "boolean", val |-> b]

JArr(items) == [kind |-> "array", items |-> items]

\* entries: a sequence of [key, value], in property order.
JObj(entries) == [kind |-> "object", entries |-> entries]

Entry(key, value) == [key |-> key, value |-> value]

\* obj[key] of JavaScript, for an object: undefined when the key is absent.
Get(obj, key) ==
    IF \E i \in 1..Len(obj.entries) : obj.entries[i].key = key
    THEN obj.entries[CHOOSE i \in 1..Len(obj.entries) : obj.entries[i].key = key].value
    ELSE Undefined

\* JavaScript truthiness of the values of this model: !v is true of
\* undefined and null (the numbers and strings of the model are non-zero and
\* non-empty).
Falsy(v) == v.kind \in {"undefined", "null"}

\* The concatenation of strs[lo..hi].
RECURSIVE ConcatRange(_, _, _)
ConcatRange(strs, lo, hi) ==
    IF lo > hi THEN << >>
    ELSE IF lo = hi THEN strs[lo]
    ELSE ConcatRange(strs, lo, (lo + hi) \div 2) \o ConcatRange(strs, (lo + hi) \div 2 + 1, hi)

\* The concatenation of a sequence of strings.
Concat(strs) == ConcatRange(strs, 1, Len(strs))

\* Array.prototype.join on a sequence of strings.
Join(strs, sep) ==
    Concat([i \in 1..Len(strs) |-> IF i = 1 THEN strs[i] ELSE sep \o strs[i]])

\* ------------------------------------------------------ the request function

\* What gqlClient.request does for one request: it resolves with the data of
\* the response, rejects with a ClientError carrying the response (whose
\* errors may be absent), or rejects with another Error (the transport).
DataOutcome(data) == [kind |-> "data", data |-> data]

ClientErrorOutcome(hasErrors, errors) ==
    [kind |-> "clientError", hasErrors |-> hasErrors, errors |-> errors]

ErrorOutcome(message) == [kind |-> "error", message |-> message]

Return(value) == [kind |-> "return", value |-> value]

Throw(message) == [kind |-> "throw", message |-> message]

Pending == [kind |-> "pending"]

\* The message with the first backend error alone.
gqlErrors_first(outcome) ==
    IF outcome.hasErrors /\ outcome.errors # << >> /\ outcome.errors[1] # << >>
    THEN outcome.errors[1] ELSE <<"Unknown GraphQL error">>

\* index.ts:68, the message of a ClientError.
gqlErrors(outcome) ==
    LET joined == IF outcome.hasErrors THEN Join(outcome.errors, <<", ">>) ELSE << >>
    IN  IF joined = << >> THEN <<"Unknown GraphQL error">> ELSE joined

\* index.ts:55-75, makeGqlRequest once gqlClient.request has settled.
makeGqlRequest(outcome) ==
    IF outcome.kind = "data" THEN Return(outcome.data)
    ELSE IF outcome.kind = "clientError"
    THEN Throw(<<"GraphQL operation failed: ">> \o gqlErrors(outcome))
    ELSE Throw(outcome.message)

\* ------------------------------------------------------------ schema cache

SchemaA ==
    JObj(<<Entry("queryType", JObj(<<Entry("name", JNum(1))>>)),
           Entry("types", JArr(<<JNum(1), JNum(2)>>))>>)

SchemaB ==
    JObj(<<Entry("queryType", JObj(<<Entry("name", JNum(1))>>)),
           Entry("types", JArr(<<JNum(1)>>))>>)

\* What the backend may answer to the introspection request.
IntrospectionOutcomes ==
    { DataOutcome(JObj(<<Entry("__schema", SchemaA)>>)),
      DataOutcome(JObj(<<Entry("__schema", SchemaB)>>)),
      DataOutcome(JObj(<<Entry("__schema", JNull)>>)),
      DataOutcome(JObj(<< >>)),
      DataOutcome(JNull),
      ClientErrorOutcome(TRUE, << <<"e1">>, <<"e2">> >>),
      ClientErrorOutcome(FALSE, << >>),
      ErrorOutcome(<<"fetch failed">>) }

Callers == 0..NumCallers

VARIABLES
    introspectionSchema, \* index.ts:77, null or a reference to a schema object
    pc,                  \* per caller: "idle", "awaiting" (at index.ts:86), "done"
    ret,                 \* per caller: how its last getIntrospectionSchema() settled
    ticket,              \* per caller: the serial number of its call's request, 0 if none
    settled,             \* per request number: what gqlClient.request settled with
    fetchCount           \* introspection requests issued so far

cacheVars == <<introspectionSchema, pc, ret, ticket, settled, fetchCount>>

Ref(n, obj) == [ref |-> n, obj |-> obj]

CacheHit_never(schema) == FALSE

\* index.ts:80
CacheHit(schema) == schema # JNull

CachedValue_partial(n, result) ==
    Ref(n, JObj(SubSeq(Get(result, "__schema").entries, 1, 1)))

\* index.ts:90, the value stored: the response's own __schema object.
CachedValue(n, result) == Ref(n, Get(result, "__schema"))

CacheAfterFailure_keep(schema) == schema

\* index.ts:93-97, the catch block: the cache after a failure.
CacheAfterFailure(schema) == JNull

\* index.ts:96, the error raised to the caller.
SchemaError(message) == Throw(<<"Failed to get GraphQL schema: ">> \o message)

\* index.ts:86-97, getIntrospectionSchema after its request (number n) has
\* settled: the new cache and how the call settles.
AfterFetch(schema, n, res) ==
    IF res.kind = "throw"
    THEN [cache |-> CacheAfterFailure(schema), ret |-> SchemaError(res.message)]
    ELSE IF Falsy(res.value)
    THEN [cache |-> CacheAfterFailure(schema),
          ret |-> SchemaError(<<"Cannot read properties of null (reading '__schema')">>)]
    ELSE IF res.value.kind # "object" \/ Falsy(Get(res.value, "__schema"))
    THEN [cache |-> CacheAfterFailure(schema),
          ret |-> SchemaError(<<"Introspection query did not return a __schema object.">>)]
    ELSE [cache |-> CachedValue(n, res.value),
          ret |-> Return(CachedValue(n, res.value))]

CacheInit ==
    /\ introspectionSchema = JNull
    /\ pc = [c \in Callers |-> "idle"]
    /\ ret = [c \in Callers |-> Pending]
    /\ ticket = [c \in Callers |-> 0]
    /\ settled = [n \in 1..MaxFetches |-> Pending]
    /\ fetchCount = 0

\* index.ts:79-86, getIntrospectionSchema() up to its await: a cache hit
\* returns at once, a miss issues the introspection request.
Enter(c) ==
    IF CacheHit(introspectionSchema)
    THEN /\ ret' = [ret EXCEPT ![c] = Return(introspectionSchema)]
         /\ pc' = [pc EXCEPT ![c] = "done"]
         /\ ticket' = [ticket EXCEPT ![c] = 0]
         /\ UNCHANGED <<introspectionSchema, settled, fetchCount>>
    ELSE /\ fetchCount < MaxFetches
         /\ fetchCount' = fetchCount + 1
         /\ ticket' = [ticket EXCEPT ![c] = fetchCount + 1]
         /\ pc' = [pc EXCEPT ![c] = "awaiting"]
         /\ ret' = [ret EXCEPT ![c] = Pending]
         /\ UNCHANGED <<introspectionSchema, settled>>

\* index.ts:197-203, main awaits one call before the server is connected.
MainCall ==
    /\ pc[0] = "idle"
    /\ Enter(0)

\* A tool or the schema resource calls getIntrospectionSchema(); the
\* transport dispatches calls once main has connected it (index.ts:207), and
\* does not wait for one call to settle before dispatching the next.
Call(c) ==
    /\ c # 0
    /\ pc[0] = "done"
    /\ pc[c] # "awaiting"
    /\ Enter(c)

\* The request of caller c settles with o and the call runs to its end
\* (index.ts:87-97).
Settle(c, o) ==
    /\ pc[c] = "awaiting"
    /\ LET after == AfterFetch(introspectionSchema, ticket[c], makeGqlRequest(o))
       IN  /\ introspectionSchema' = after.cache
           /\ ret' = [ret EXCEPT ![c] = after.ret]
    /\ settled' = [settled EXCEPT ![ticket[c]] = o]
    /\ pc' = [pc EXCEPT ![c] = "done"]
    /\ UNCHANGED <<ticket, fetchCount>>

\* ------------------------------------------------------------------ strings

\* Documents are sequences of characters.
Space == <<" ">>

Comment == <<"#", "c", "\n">>

KwMutation == <<"m", "u", "t", "a", "t", "i", "o", "n">>

MutationOp == KwMutation \o <<"{", "a", "}">>

MutationOpUpper == <<"M", "U", "T", "A", "T", "I", "O", "N", "{", "a", "}">>

QueryOp == <<"q", "u", "e", "r", "y", "{", "a", "}">>

Shorthand == <<"{", "a", "}">>

Pieces == {Space, Comment, MutationOp, MutationOpUpper, QueryOp, Shorthand}

\* Longest document, in pieces.
MaxPieces == 2

\* The documents a caller may pass.
Documents ==
    {Concat(ps) : ps \in UNION {[1..n -> Pieces] : n \in 1..MaxPieces}}

\* The upper-case letters of the documents of this model, and their
\* lower-case forms.
UpperLetters == <<"A", "C", "E", "H", "I", "M", "N", "O", "S", "T", "U">>

LowerLetters == <<"a", "c", "e", "h", "i", "m", "n", "o", "s", "t", "u">>

\* One character of String.prototype.toLowerCase.
LowerChar(ch) ==
    IF \E i \in 1..Len(UpperLetters) : UpperLetters[i] = ch
    THEN LowerLetters[CHOOSE i \in 1..Len(UpperLetters) : UpperLetters[i] = ch]
    ELSE ch

ToLowerCase(str) == [i \in 1..Len(str) |-> LowerChar(str[i])]

\* The white space and line terminators String.prototype.trim removes, among
\* the characters of this model.
IsWhitespace(ch) == ch \in {" ", "\n", "\t", "\r"}

\* String.prototype.trim: both ends.
Trim(str) ==
    LET keep == {i \in 1..Len(str) : ~IsWhitespace(str[i])}
    IN  IF keep = {} THEN << >>
        ELSE SubSeq(str,
                    CHOOSE i \in keep : \A j \in keep : i <= j,
                    CHOOSE i \in keep : \A j \in keep : i >= j)

StartsWith(str, prefix) ==
    Len(str) >= Len(prefix) /\ SubSeq(str, 1, Len(prefix)) = prefix

EndsWith(str, suffix) ==
    Len(str) >= Len(suffix) /\ SubSeq(str, Len(str) - Len(suffix) + 1, Len(str)) = suffix

\* ------------------------------------------------------------- tool inputs

None == [present |-> FALSE]

Some(v) == [present |-> TRUE, val |-> v]

\* `x || {}` and `{...x}` for an optional variables object.
OrEmpty(variables) == IF variables.present THEN variables.val ELSE JObj(<< >>)

\* obj[key] = value: an own property is overwritten in place, a new one is
\* added last.
SetKey(obj, key, value) ==
    IF \E i \in 1..Len(obj.entries) : obj.entries[i].key = key
    THEN JObj([i \in 1..Len(obj.entries) |->
                 IF obj.entries[i].key = key THEN Entry(key, value) ELSE obj.entries[i]])
    ELSE JObj(Append(obj.entries, Entry(key, value)))

\* -------------------------------------------------------- post-hoc trimming

\* RunGraphQLQueryTool.ts:63, the ceiling of the trimming tool.
Ceiling == 100

\* The ceiling of the limit-checking tool.
LimitCeiling == 100

RECURSIVE trimResult(_, _)
RECURSIVE trimmedFields(_, _)

IndexPath(path, idx) == path \o <<"[", ToString(idx), "]">>

KeyPath(path, key) == IF path = <<"root">> THEN <<key>> ELSE path \o <<".", key>>

\* RunGraphQLQueryTool.ts:66, what replaces an array longer than the ceiling.
Truncated(items) == SubSeq(items, 1, Ceiling)

\* RunGraphQLQueryTool.ts:61-77, the value trimResult returns.  The keys of
\* the model's objects are names, which for-in visits in insertion order.
trimResult(obj, path) ==
    IF obj.kind = "array"
    THEN IF Len(obj.items) > Ceiling
         THEN JArr(Truncated(obj.items))
         ELSE JArr([i \in 1..Len(obj.items) |->
                      trimResult(obj.items[i], IndexPath(path, i - 1))])
    ELSE IF obj.kind = "object"
    THEN JObj([i \in 1..Len(obj.entries) |->
                 Entry(obj.entries[i].key,
                       trimResult(obj.entries[i].value, KeyPath(path, obj.entries[i].key)))])
    ELSE obj

\* RunGraphQLQueryTool.ts:65, one entry of trimmedFields.
TrimmedField(path, length) ==
    path \o <<" (", ToString(length), " rows trimmed to 100)">>

\* RunGraphQLQueryTool.ts:59-77, what a call of trimResult pushes to
\* trimmedFields, in order.
trimmedFields(obj, path) ==
    IF obj.kind = "array"
    THEN IF Len(obj.items) > Ceiling
         THEN <<TrimmedField(path, Len(obj.items))>>
         ELSE Concat([i \in 1..Len(obj.items) |->
                        trimmedFields(obj.items[i], IndexPath(path, i - 1))])
    ELSE IF obj.kind = "object"
    THEN Concat([i \in 1..Len(obj.entries) |->
                   trimmedFields(obj.entries[i].value, KeyPath(path, obj.entries[i].key))])
    ELSE << >>

\* RunGraphQLQueryTool.ts:94
WarningText(fields) ==
    <<"Results were automatically trimmed to 100 rows per array to prevent excessive data. Trimmed fields: ">>
        \o Join(fields, <<", ">>)
        \o <<". Use pagination in your query (limit/offset) or set forceBigQuery=true to get all results.">>

JStr(str) == [kind |-> "string", str |-> str]

\* { ...value }: the own enumerable properties of an object, the indices of
\* an array, nothing of null or a number.
Spread(value) ==
    IF value.kind = "object" THEN value
    ELSE IF value.kind = "array"
    THEN JObj([i \in 1..Len(value.items) |-> Entry(ToString(i - 1), value.items[i])])
    ELSE JObj(<< >>)

\* RunGraphQLQueryTool.ts:92-95
WithWarning(trimmedResult, fields) ==
    SetKey(Spread(trimmedResult), "_warning", JStr(WarningText(fields)))

\* ---------------------------------------------------------- JSON.stringify

\* The escape of a double quote inside a JSON string.
Escape(str) == [i \in 1..Len(str) |-> IF str[i] = "\"" THEN "\\\"" ELSE str[i]]

RECURSIVE JSONstringify(_, _)

\* The line break and indentation before a member at nesting depth d
\* (JSON.stringify(value, null, 2)).
Indent(d) == <<"\n">> \o [i \in 1..d |-> "  "]

\* "," after every member but the last.
Comma(i, n) == IF i = n THEN << >> ELSE <<",">>

\* JSON.stringify(value, null, 2) of a value at nesting depth d.
JSONstringify(value, d) ==
    IF value.kind = "null" THEN <<"null">>
    ELSE IF value.kind = "number" THEN <<ToString(value.val)>>
    ELSE IF value.kind = "boolean" THEN <<IF value.val THEN "true" ELSE "false">>
    ELSE IF value.kind = "string" THEN <<"\"">> \o Escape(value.str) \o <<"\"">>
    ELSE IF value.kind = "array"
    THEN IF value.items = << >> THEN <<"[]">>
         ELSE <<"[">>
              \o Concat([i \in 1..Len(value.items) |->
                           Indent(d + 1) \o JSONstringify(value.items[i], d + 1)
                               \o Comma(i, Len(value.items))])
              \o Indent(d) \o <<"]">>
    ELSE IF value.entries = << >> THEN <<"{}">>
         ELSE <<"{">>
              \o Concat([i \in 1..Len(value.entries) |->
                           Indent(d + 1) \o <<"\"", value.entries[i].key, "\"", ": ">>
                               \o JSONstringify(value.entries[i].value, d + 1)
                               \o Comma(i, Len(value.entries))])
              \o Indent(d) \o <<"}">>

RECURSIVE JSONcompact(_)

\* "," before every member but the first.
Separated(texts) == Concat([i \in 1..Len(texts) |-> IF i = 1 THEN texts[i] ELSE <<",">> \o texts[i]])

\* JSON.stringify(value), without indentation.
JSONcompact(value) ==
    IF value.kind = "null" THEN <<"null">>
    ELSE IF value.kind = "number" THEN <<ToString(value.val)>>
    ELSE IF value.kind = "boolean" THEN <<IF value.val THEN "true" ELSE "false">>
    ELSE IF value.kind = "string" THEN <<"\"">> \o Escape(value.str) \o <<"\"">>
    ELSE IF value.kind = "array"
    THEN <<"[">> \o Separated([i \in 1..Len(value.items) |-> JSONcompact(value.items[i])])
               \o <<"]">>
    ELSE <<"{">>
         \o Separated([i \in 1..Len(value.entries) |->
                          <<"\"", value.entries[i].key, "\"", ":">>
                              \o JSONcompact(value.entries[i].value)])
         \o <<"}">>

\* `${value}` of a template literal with JSON.stringify(value) in it:
\* JSON.stringify(undefined) is undefined.
Interpolated(value) == IF value.kind = "undefined" THEN <<"undefined">> ELSE JSONcompact(value)

\* The result every tool returns: { content: [{ type: "text", text }] }.
TextResult(value) ==
    [content |-> <<[type |-> "text", text |-> JSONstringify(value, 0)]>>]

\* ------------------------------------------------------- passthrough tools

Rep(n, v) == [i \in 1..n |-> v]

\* What the backend may answer to a passthrough query of the trimming tool.
TrimData ==
    { JObj(<<Entry("a", JObj(<<Entry("b", JArr(Rep(Ceiling + 50, JNum(1)))),
                               Entry("c", JArr(Rep(50, JNum(1))))>>))>>),
      JObj(<<Entry("users", JArr(Rep(Ceiling, JNum(1))))>>),
      JObj(<<Entry("users",
                   JArr(<<JObj(<<Entry("posts", JArr(Rep(Ceiling + 1, JNum(1))))>>)>>
                        \o Rep(Ceiling, JObj(<<Entry("posts", JArr(<< >>))>>))))>>),
      JObj(<<Entry("rows", JArr(<<JArr(Rep(Ceiling + 1, JNum(1))), JArr(<<JNum(1)>>)>>))>>),
      JObj(<<Entry("_warning", JNum(7)), Entry("rows", JArr(Rep(Ceiling + 1, JNum(1))))>>),
      JObj(<<Entry("root", JObj(<<Entry("b", JArr(Rep(Ceiling + 1, JNum(1))))>>))>>),
      JObj(<<Entry("a", JNum(1))>>),
      JArr(Rep(Ceiling + 1, JNum(1))),
      JNull }

\* What the backend may answer to the other passthrough tools.
PlainData == { JObj(<<Entry("a", JNum(1))>>), JNull }

FailureOutcomes ==
    { ClientErrorOutcome(TRUE, << <<"e1">>, <<"e2">> >>),
      ErrorOutcome(<<"fetch failed">>) }

TrimOutcomes == {DataOutcome(d) : d \in TrimData} \cup FailureOutcomes

PlainOutcomes == {DataOutcome(d) : d \in PlainData} \cup FailureOutcomes

\* The messages of backend errors: two texts and the empty string.
ErrorMessages == {<<"e1">>, <<"e2">>, << >>}

\* Rejections with a response of no, one, two and three errors, and with a
\* response that has no errors property.
ErrorListOutcomes ==
    {ClientErrorOutcome(TRUE, errors) :
        errors \in {<< >>, << <<"e1">>, <<"e2">>, <<"e1">> >>}
                       \cup {<<a>> : a \in ErrorMessages}
                       \cup {<<a, b>> : a \in ErrorMessages, b \in ErrorMessages}}
        \cup {ClientErrorOutcome(FALSE, << >>)}

VariableInputs == {None, Some(JObj(<<Entry("limit", JNum(500))>>))}

FlagInputs == {None, Some(FALSE), Some(TRUE)}

LimitInputs == {None, Some(1), Some(LimitCeiling), Some(LimitCeiling + 1)}

OffsetInputs == {None, Some(0)}

VARIABLES
    tool,      \* the tool whose execute is running or ran last ("none" at start)
    input,     \* its input object
    tpc,       \* "idle", "awaiting" (at its await of makeGqlRequest), "done"
    sent,      \* the (query, variables) the call passed to makeGqlRequest
    tsettled,  \* what gqlClient.request settled with for the call
    payload,   \* the value the call handed to JSON.stringify
    tret,      \* how the call settled
    history    \* the calls that ended before the current one: tool, input, sent, schema

toolVars == <<tool, input, tpc, sent, tsettled, payload, tret, history>>

vars == <<cacheVars, toolVars>>

ToolInit ==
    /\ tool = "none"
    /\ input = None
    /\ tpc = "idle"
    /\ sent = << >>
    /\ tsettled = Pending
    /\ payload = Undefined
    /\ tret = Pending
    /\ history = << >>

\* The destructuring default `forceBigQuery = false`.
DefaultFalse(flag) == IF flag.present THEN flag.val ELSE FALSE

\* RunGraphQLQueryTool.ts:49 (and part_003:44, part_003:104)
QueryRoleViolation(query) == StartsWith(ToLowerCase(Trim(query)), KwMutation)

MutationRoleViolation_caseSensitive(mutation) == ~StartsWith(Trim(mutation), KwMutation)

\* part_002:32
MutationRoleViolation(mutation) == ~StartsWith(ToLowerCase(Trim(mutation)), KwMutation)

LimitViolation_onlyOver(limit, forceBigQuery) ==
    ~forceBigQuery /\ limit.present /\ limit.val > LimitCeiling

\* part_003:49
LimitViolation(limit, forceBigQuery) ==
    ~forceBigQuery /\ (~limit.present \/ limit.val > LimitCeiling)

\* part_003:60-62
MergedVariables(variables, limit, offset) ==
    LET spread == OrEmpty(variables)
        withLimit == IF limit.present THEN SetKey(spread, "limit", JNum(limit.val)) ELSE spread
    IN  IF offset.present THEN SetKey(withLimit, "offset", JNum(offset.val)) ELSE withLimit

ForwardedDocument_trimmed(document) == Trim(document)

\* The document a passthrough tool hands to makeGqlRequest.
ForwardedDocument(document) == document

ReadOnlyError == Throw(<<"This tool only supports read-only queries...">>)

NotMutationError == Throw(<<"The provided string does not appear to be a mutation...">>)

LimitError ==
    Throw(<<"Query requires limit <= 100. Set forceBigQuery=true to bypass this safety check.">>)

Trims_always(forceBigQuery) == TRUE

\* RunGraphQLQueryTool.ts:57, whether the result is trimmed.
Trims(forceBigQuery) == ~forceBigQuery

\* RunGraphQLQueryTool.ts:56-103, the value serialised for a result.
ResultPayload(result, forceBigQuery) ==
    IF Trims(forceBigQuery)
    THEN IF trimmedFields(result, <<"root">>) # << >>
         THEN WithWarning(trimResult(result, <<"root">>), trimmedFields(result, <<"root">>))
         ELSE trimResult(result, <<"root">>)
    ELSE result

\* execute up to its await: a validation error raised before any request, or
\* the request issued.  The tools keep no state from one call to the next, so
\* a behaviour follows one call.
Begin(name, in, rejection, document, variables) ==
    /\ tpc = "idle"
    /\ tool' = name
    /\ input' = in
    /\ tsettled' = Pending
    /\ payload' = Undefined
    /\ IF rejection.kind = "throw"
       THEN /\ tret' = rejection
            /\ tpc' = "done"
            /\ sent' = << >>
       ELSE /\ tret' = Pending
            /\ tpc' = "awaiting"
            /\ sent' = <<[query |-> ForwardedDocument(document), variables |-> variables]>>
    /\ UNCHANGED <<cacheVars, history>>

Finish_invalidating(name, o, value) ==
    /\ tool = name
    /\ tpc = "awaiting"
    /\ tsettled' = o
    /\ tpc' = "done"
    /\ IF makeGqlRequest(o).kind = "throw"
       THEN /\ tret' = makeGqlRequest(o)
            /\ payload' = Undefined
            /\ introspectionSchema' = JNull
       ELSE /\ tret' = Return(TextResult(value))
            /\ payload' = value
            /\ introspectionSchema' = introspectionSchema
    /\ UNCHANGED <<tool, input, sent, history, pc, ret, ticket, settled, fetchCount>>

\* execute after its await: the error of makeGqlRequest re-raised, or the
\* serialised result returned.
Finish(name, o, value) ==
    /\ tool = name
    /\ tpc = "awaiting"
    /\ tsettled' = o
    /\ tpc' = "done"
    /\ IF makeGqlRequest(o).kind = "throw"
       THEN /\ tret' = makeGqlRequest(o)
            /\ payload' = Undefined
       ELSE /\ tret' = Return(TextResult(value))
            /\ payload' = value
    /\ UNCHANGED <<tool, input, sent, history, cacheVars>>

\* RunGraphQLQueryTool.ts:45-54
InvokeQuery(query, variables, forceBigQuery) ==
    Begin("run_graphql_query",
          [query |-> query, variables |-> variables, forceBigQuery |-> forceBigQuery],
          IF QueryRoleViolation(query) THEN ReadOnlyError ELSE Pending,
          query, Some(OrEmpty(variables)))

\* RunGraphQLQueryTool.ts:54-107
SettleQuery(o) ==
    Finish("run_graphql_query", o,
           IF o.kind = "data"
           THEN ResultPayload(o.data, DefaultFalse(input.forceBigQuery))
           ELSE Undefined)

\* part_003:40-64, the limit-checking run_graphql_query.
InvokeLimitQuery(query, variables, limit, offset, forceBigQuery) ==
    Begin("run_graphql_query/limit",
          [query |-> query, variables |-> variables, limit |-> limit, offset |-> offset,
           forceBigQuery |-> forceBigQuery],
          IF QueryRoleViolation(query) THEN ReadOnlyError
          ELSE IF LimitViolation(limit, DefaultFalse(forceBigQuery)) THEN LimitError
          ELSE Pending,
          query, Some(MergedVariables(variables, limit, offset)))

\* part_003:64-69
SettleLimitQuery(o) ==
    Finish("run_graphql_query/limit", o, IF o.kind = "data" THEN o.data ELSE Undefined)

\* part_003:100-109, the run_graphql_query with no result policy.
InvokePlainQuery(query, variables) ==
    Begin("run_graphql_query/plain", [query |-> query, variables |-> variables],
          IF QueryRoleViolation(query) THEN ReadOnlyError ELSE Pending,
          query, variables)

\* part_003:109-114
SettlePlainQuery(o) ==
    Finish("run_graphql_query/plain", o, IF o.kind = "data" THEN o.data ELSE Undefined)

\* part_002:28-37
InvokeMutation(mutation, variables) ==
    Begin("run_graphql_mutation", [mutation |-> mutation, variables |-> variables],
          IF MutationRoleViolation(mutation) THEN NotMutationError ELSE Pending,
          mutation, variables)

\* part_002:37-42
SettleMutation(o) ==
    Finish("run_graphql_mutation", o, IF o.kind = "data" THEN o.data ELSE Undefined)

Init == CacheInit /\ ToolInit

Next ==
    \/ MainCall /\ UNCHANGED toolVars
    \/ \E c \in Callers : Call(c) /\ UNCHANGED toolVars
    \/ \E c \in Callers, o \in IntrospectionOutcomes : Settle(c, o) /\ UNCHANGED toolVars

Spec == Init /\ [][Next]_vars

ToolNext ==
    \/ /\ tpc = "idle"
       /\ \E q \in Documents, v \in VariableInputs, f \in FlagInputs : InvokeQuery(q, v, f)
    \/ /\ tpc = "awaiting"
       /\ \E o \in TrimOutcomes : SettleQuery(o)
    \/ /\ tpc = "idle"
       /\ \E q \in Documents, v \in VariableInputs, l \in LimitInputs,
             s \in OffsetInputs, f \in FlagInputs : InvokeLimitQuery(q, v, l, s, f)
    \/ /\ tpc = "awaiting"
       /\ \E o \in PlainOutcomes : SettleLimitQuery(o)
    \/ /\ tpc = "idle"
       /\ \E q \in Documents, v \in VariableInputs : InvokePlainQuery(q, v)
    \/ /\ tpc = "awaiting"
       /\ \E o \in PlainOutcomes : SettlePlainQuery(o)
    \/ /\ tpc = "idle"
       /\ \E q \in Documents, v \in VariableInputs : InvokeMutation(q, v)
    \/ /\ tpc = "awaiting"
       /\ \E o \in PlainOutcomes \cup ErrorListOutcomes : SettleMutation(o)

ToolSpec == Init /\ [][ToolNext]_vars

\* Calls that do not overlap: a call is dispatched only when no other call is
\* awaiting its request.
SeqCall(c) ==
    /\ \A d \in Callers : pc[d] # "awaiting"
    /\ Call(c)

SeqNext ==
    \/ MainCall /\ UNCHANGED toolVars
    \/ \E c \in Callers : SeqCall(c) /\ UNCHANGED toolVars
    \/ \E c \in Callers, o \in IntrospectionOutcomes : Settle(c, o) /\ UNCHANGED toolVars

SeqSpec == Init /\ [][SeqNext]_vars

\* ------------------------------------------------------ introspection data

\* Names are sequences of characters.
RootSuffix == <<"_", "r", "o", "o", "t">>

ReservedPrefix == <<"_", "_">>

QRoot == <<"q">> \o RootSuffix

MRoot == <<"m">> \o RootSuffix

SRoot == <<"s">> \o RootSuffix

WRoot == <<"w">> \o RootSuffix

ReservedRoot == ReservedPrefix \o <<"s">> \o RootSuffix

InputRoot == <<"i">> \o RootSuffix

RootsName == RootSuffix \o <<"s">>

TableT == <<"t">>

TableU == <<"u">>

TableN == <<"n">>

EnumE == <<"e">>

\* A named type reference of the introspection result: { kind, name, ofType: null }.
NamedRef(kind, name) ==
    JObj(<<Entry("kind", JStr(<<kind>>)), Entry("name", JStr(name)), Entry("ofType", JNull)>>)

\* A wrapping type reference: { kind, name: null, ofType }.
WrapRef(kind, ofType) ==
    JObj(<<Entry("kind", JStr(<<kind>>)), Entry("name", JNull), Entry("ofType", ofType)>>)

NonNull(ofType) == WrapRef("NON_NULL", ofType)

ListOf(ofType) == WrapRef("LIST", ofType)

\* The deepest reference the introspection query selects, when the schema's
\* type is nested deeper still: a wrapper with no ofType property.
CutRef(kind) == JObj(<<Entry("kind", JStr(<<kind>>)), Entry("name", JNull)>>)

IntRef == NamedRef("SCALAR", <<"I", "n", "t">>)

EnumRef == NamedRef("ENUM", EnumE)

ObjRef(name) == NamedRef("OBJECT", name)

\* A field of a type: { name, description, args, type }.
FieldOf(name, description, type) ==
    JObj(<<Entry("name", JStr(name)), Entry("description", description),
           Entry("args", JArr(<< >>)), Entry("type", type)>>)

\* A type: { kind, name, description, fields }.
TypeOf(kind, name, fields) ==
    JObj(<<Entry("kind", JStr(<<kind>>)), Entry("name", JStr(name)),
           Entry("description", JNull), Entry("fields", fields)>>)

\* { name } of a declared root type, or null.
RootName(name) == JObj(<<Entry("name", JStr(name))>>)

SchemaOf(queryType, mutationType, subscriptionType, types) ==
    JObj(<<Entry("queryType", queryType), Entry("mutationType", mutationType),
           Entry("subscriptionType", subscriptionType), Entry("types", JArr(types))>>)

\* Columns of every shape: scalar, enum, wrapped scalars and enums, an object
\* relationship and an array relationship.
FieldsT ==
    <<FieldOf(<<"i", "d">>, JNull, NonNull(IntRef)),
      FieldOf(<<"o">>, JNull, ObjRef(TableU)),
      FieldOf(<<"k">>, JStr(<<"kind">>), EnumRef),
      FieldOf(<<"u", "s">>, JNull, NonNull(ListOf(NonNull(ObjRef(TableU))))),
      FieldOf(<<"t", "a", "g", "s">>, JNull, NonNull(ListOf(NonNull(EnumRef)))),
      FieldOf(<<"n">>, JNull, IntRef)>>

\* Relationships only.
FieldsU ==
    <<FieldOf(<<"o">>, JNull, ObjRef(TableT)),
      FieldOf(<<"t", "s">>, JNull, ListOf(ObjRef(TableT)))>>

\* Wrapper chains that end without a named type: the chain cut at the depth
\* the introspection query selects, a wrapper whose ofType is null, and a
\* terminal node without a name.
FieldsN ==
    <<FieldOf(<<"i", "d">>, JNull, IntRef),
      FieldOf(<<"a">>, JNull, NonNull(ListOf(CutRef("NON_NULL")))),
      FieldOf(<<"b">>, JNull, NonNull(WrapRef("LIST", JNull))),
      FieldOf(<<"c">>, JNull, JObj(<<Entry("kind", JStr(<<"SCALAR">>)), Entry("name", JNull),
                                     Entry("ofType", JNull)>>))>>

QueryFields ==
    <<FieldOf(TableT, JStr(<<"M", "a", "i", "n">>), NonNull(ListOf(NonNull(ObjRef(TableT))))),
      FieldOf(TableU, JNull, NonNull(ListOf(NonNull(ObjRef(TableU)))))>>

MutationFields ==
    <<FieldOf(<<"i", "n", "s", "e", "r", "t", "_", "t">>, JNull, ObjRef(TableT))>>

CommonTypes ==
    <<TypeOf("SCALAR", <<"I", "n", "t">>, JNull),
      TypeOf("ENUM", EnumE, JNull),
      TypeOf("OBJECT", TableT, JArr(FieldsT)),
      TypeOf("OBJECT", TableU, JArr(FieldsU))>>

\* A schema with the three root types declared and no other type named *_root.
SchemaPlain ==
    SchemaOf(RootName(QRoot), RootName(MRoot), RootName(SRoot),
             <<TypeOf("OBJECT", QRoot, JArr(QueryFields)),
               TypeOf("OBJECT", MRoot, JArr(MutationFields)),
               TypeOf("OBJECT", SRoot, JArr(QueryFields))>> \o CommonTypes)

\* A schema with only a query type declared (under another name), in which
\* types of every kind of name carry, or almost carry, the suffix _root.
SchemaRoots ==
    SchemaOf(RootName(<<"Q">>), JNull, JNull,
             <<TypeOf("OBJECT", <<"Q">>, JArr(QueryFields)),
               TypeOf("OBJECT", WRoot, JArr(FieldsU)),
               TypeOf("OBJECT", ReservedRoot, JArr(FieldsU)),
               TypeOf("INPUT_OBJECT", InputRoot, JNull),
               TypeOf("OBJECT", RootsName, JArr(FieldsU)),
               TypeOf("OBJECT", QRoot, JArr(QueryFields)),
               TypeOf("ENUM", TableU, JNull)>> \o CommonTypes)

\* A schema with a table whose columns have unterminated wrapper chains.
SchemaDeep ==
    SchemaOf(RootName(QRoot), RootName(MRoot), JNull,
             <<TypeOf("OBJECT", QRoot, JArr(QueryFields)),
               TypeOf("OBJECT", MRoot, JArr(MutationFields)),
               TypeOf("OBJECT", WRoot, JArr(FieldsT)),
               TypeOf("OBJECT", TableN, JArr(FieldsN))>> \o CommonTypes)

Schemas == {SchemaPlain, SchemaRoots, SchemaDeep}

\* What the backend may answer to the introspection request of a server in
\* front of such a schema.
SchemaOutcomes ==
    {DataOutcome(JObj(<<Entry("__schema", s)>>)) : s \in Schemas}
        \cup { DataOutcome(JObj(<< >>)),
               ClientErrorOutcome(TRUE, << <<"e1">>, <<"e2">> >>),
               ErrorOutcome(<<"fetch failed">>) }

\* ---------------------------------------------------------- aggregate_data

\* The property name that a string of this model is: object keys are atoms,
\* a one-character name is its character.
PropertyKey(str) ==
    IF Len(str) = 1 THEN str[1]
    ELSE IF str = TableT \o <<"_aggregate">> THEN "t_aggregate"
    ELSE IF str = TableU \o <<"_aggregate">> THEN "u_aggregate"
    ELSE "?"

AggregateFunctions == {"count", "sum", "avg", "min", "max"}

\* field: absent, the empty string, a column name.
FieldInputs == {None, Some(<< >>), Some(<<"n">>)}

\* filter: absent, an empty object, a comparison.
FilterInputs ==
    { None,
      Some(JObj(<< >>)),
      Some(JObj(<<Entry("id", JObj(<<Entry("_eq", JNum(1))>>))>>)) }

TableInputs == {TableT, TableU}

AggregateData ==
    { JObj(<<Entry("t_aggregate", JObj(<<Entry("aggregate", JObj(<<Entry("count", JNum(3))>>))>>))>>),
      JObj(<<Entry("t_aggregate", JNull)>>),
      JNull }

AggregateOutcomes == {DataOutcome(d) : d \in AggregateData} \cup FailureOutcomes

AggregateFieldMissing_absentOnly(aggregateFunction, field) ==
    aggregateFunction # "count" /\ ~field.present

\* AggregateDataTool.ts:39, `aggregateFunction !== 'count' && !field`.
AggregateFieldMissing(aggregateFunction, field) ==
    aggregateFunction # "count" /\ (~field.present \/ field.val = << >>)

\* AggregateDataTool.ts:40
FieldRequiredError(aggregateFunction) ==
    Throw(<<"The 'field' parameter is required for '", aggregateFunction, "' aggregation.">>)

\* AggregateDataTool.ts:46
aggregateTableName(tableName) == tableName \o <<"_aggregate">>

aggregateSelection_countField(aggregateFunction, field) ==
    IF field.present
    THEN <<"{", " ", aggregateFunction, " ", "{", " ">> \o field.val \o <<" ", "}", " ", "}">>
    ELSE <<"{", " ", "count", " ", "}">>

\* AggregateDataTool.ts:48-55, for the inputs that pass line 39.
aggregateSelection(aggregateFunction, field) ==
    IF aggregateFunction = "count"
    THEN <<"{", " ", "count", " ", "}">>
    ELSE <<"{", " ", aggregateFunction, " ", "{", " ">> \o field.val \o <<" ", "}", " ", "}">>

\* AggregateDataTool.ts:57
boolExpTypeName(tableName) == tableName \o <<"_bool_exp">>

\* AggregateDataTool.ts:58
filterVariableDefinition(tableName, filter) ==
    IF filter.present
    THEN <<"(", "$filter", ":", " ">> \o boolExpTypeName(tableName) \o <<"!", ")">>
    ELSE << >>

\* AggregateDataTool.ts:59
whereClause(filter) == IF filter.present THEN <<"where", ":", " ", "$filter">> ELSE << >>

\* AggregateDataTool.ts:61-67, the document: the pieces of the template with
\* punctuators, names and white space as pieces of their own.
AggregateQuery(tableName, aggregateFunction, field, filter) ==
    <<"\n      ", "query", " ", "AggregateData", " ">>
        \o filterVariableDefinition(tableName, filter)
        \o <<" ", "{", "\n        ">>
        \o aggregateTableName(tableName) \o <<"(">> \o whereClause(filter) \o <<")">>
        \o <<" ", "{", "\n          ", "aggregate", " ">>
        \o aggregateSelection(aggregateFunction, field)
        \o <<"\n        ", "}", "\n      ", "}", "\n    ">>

\* AggregateDataTool.ts:69
AggregateVariables(filter) ==
    IF filter.present THEN JObj(<<Entry("filter", filter.val)>>) ELSE JObj(<< >>)

\* AggregateDataTool.ts:74-80
finalResult(rawResult, tableName) ==
    LET table == IF rawResult.kind = "object"
                 THEN Get(rawResult, PropertyKey(aggregateTableName(tableName)))
                 ELSE Undefined
        aggregate == IF table.kind = "object" THEN Get(table, "aggregate") ELSE Undefined
    IN  IF ~Falsy(rawResult) /\ ~Falsy(table) /\ ~Falsy(aggregate) THEN aggregate ELSE rawResult

\* AggregateDataTool.ts:35-72
InvokeAggregate(tableName, aggregateFunction, field, filter) ==
    Begin("aggregate_data",
          [tableName |-> tableName, aggregateFunction |-> aggregateFunction,
           field |-> field, filter |-> filter],
          IF AggregateFieldMissing(aggregateFunction, field)
          THEN FieldRequiredError(aggregateFunction)
          ELSE Pending,
          AggregateQuery(tableName, aggregateFunction, field, filter),
          Some(AggregateVariables(filter)))

\* AggregateDataTool.ts:72-91.  makeGqlRequest raises plain Errors, never a
\* ClientError, so the catch block re-raises what it caught.
SettleAggregate(o) ==
    Finish("aggregate_data", o,
           IF o.kind = "data" THEN finalResult(o.data, input.tableName) ELSE Undefined)

\* ------------------------------------------------ tools that use the schema

\* The caller of getIntrospectionSchema that the running tool is, and the
\* caller that another request of the client is.
ToolCaller == 1

OtherCaller == 2

\* What execute does next: raise (Throw), return a value (Return), issue a
\* request, or wait for getIntrospectionSchema.
Request(query, variables) == [kind |-> "request", query |-> query, variables |-> variables]

AwaitSchema == [kind |-> "schema"]

\* The call of tool name with input in goes on as plan says.
Proceed(name, in, plan) ==
    /\ tool' = name
    /\ input' = in
    /\ tsettled' = Pending
    /\ tpc' = IF plan.kind = "request" THEN "awaiting"
              ELSE IF plan.kind = "schema" THEN "schema"
              ELSE "done"
    /\ sent' = IF plan.kind = "request"
               THEN Append(sent, [query |-> plan.query, variables |-> Some(plan.variables)])
               ELSE sent
    /\ tret' = IF plan.kind = "throw" THEN plan
               ELSE IF plan.kind = "return" THEN Return(TextResult(plan.value))
               ELSE Pending
    /\ payload' = IF plan.kind = "return" THEN plan.value ELSE Undefined
    /\ UNCHANGED history

\* A TypeError for a property read of null or undefined.
TypeError(of, property) ==
    Throw(<<"Cannot read properties of ", of, " (reading '", property, "')">>)

\* A default of the input schema, or of the destructuring.
OrDefault(opt, default) == IF opt.present THEN opt.val ELSE default

\* schema.types
TypesOf(schema) == Get(schema, "types").items

\* ------------------------------------------------------ preview_table_data

\* PreviewTableDataTool.ts:24
DefaultLimit == 5

\* part_001:29
DefaultOffset == 0

\* PreviewTableDataTool.ts:40, Array.prototype.find: the first OBJECT type of
\* that name, or undefined.
tableType(schema, tableName) ==
    LET found == {i \in 1..Len(TypesOf(schema)) :
                     /\ Get(TypesOf(schema)[i], "name") = JStr(tableName)
                     /\ Get(TypesOf(schema)[i], "kind") = JStr(<<"OBJECT">>)}
    IN  IF found = { } THEN Undefined
        ELSE TypesOf(schema)[CHOOSE i \in found : \A j \in found : i <= j]

\* PreviewTableDataTool.ts:42
TableNotFound(tableName) ==
    Throw(<<"Table (Object type) '">> \o tableName \o <<"' not found in schema.">>)

RECURSIVE currentType(_)
\* PreviewTableDataTool.ts:47-48, the value of currentType when the loop
\* ends: a type that is no wrapper, or the null or undefined whose kind the
\* loop condition reads.
currentType(ref) ==
    IF ref.kind # "object" THEN ref
    ELSE IF Get(ref, "kind") \in {JStr(<<"NON_NULL">>), JStr(<<"LIST">>)}
    THEN currentType(Get(ref, "ofType"))
    ELSE ref

\* The filter callback raises on this field.
FilterRaises(field) == currentType(Get(field, "type")).kind # "object"

scalarKinds_scalarOnly == {JStr(<<"SCALAR">>)}

\* PreviewTableDataTool.ts:49
scalarKinds == {JStr(<<"SCALAR">>), JStr(<<"ENUM">>)}

\* PreviewTableDataTool.ts:46-50, the filter callback where it does not raise.
IsScalarField(field) ==
    /\ ~FilterRaises(field)
    /\ Get(currentType(Get(field, "type")), "kind") \in scalarKinds

\* tableType.fields?.filter: the fields, none when fields is null.
FieldsOfType(type) ==
    IF Get(type, "fields").kind = "array" THEN Get(type, "fields").items ELSE << >>

\* PreviewTableDataTool.ts:45-56
scalarFields(type) ==
    LET kept == SelectSeq(FieldsOfType(type), IsScalarField)
    IN  IF kept = << >> THEN << <<"__typename">> >>
        ELSE [i \in 1..Len(kept) |-> Get(kept[i], "name").str]

\* PreviewTableDataTool.ts:58
fieldsString(type) == Join(scalarFields(type), <<"\n          ">>)

\* PreviewTableDataTool.ts:59
PreviewQuery(tableName, fields) ==
    <<" ", "query", " ", "PreviewData", "(", "$limit", ":", " ", "Int", "!", ")", " ", "{", " ">>
        \o tableName \o <<"(", "limit", ":", " ", "$limit", ")", " ", "{", " ">>
        \o fields \o <<" ", "}", " ", "}">>

\* part_001:64
PaginatedQuery(tableName, fields) ==
    <<" ", "query", " ", "PreviewData", "(", "$limit", ":", " ", "Int", "!", ",", " ",
      "$offset", ":", " ", "Int", "!", ")", " ", "{", " ">>
        \o tableName
        \o <<"(", "limit", ":", " ", "$limit", ",", " ", "offset", ":", " ", "$offset", ")",
             " ", "{", " ">>
        \o fields \o <<" ", "}", " ", "}">>

PreviewVariables_none(limit) == JObj(<< >>)

\* PreviewTableDataTool.ts:60
PreviewVariables(limit) == JObj(<<Entry("limit", JNum(limit))>>)

\* part_001:65
PaginatedVariables(limit, offset) ==
    JObj(<<Entry("limit", JNum(limit)), Entry("offset", JNum(offset))>>)

\* The first field on which the filter callback raises, or 0.
FirstRaising(type) ==
    LET raising == {i \in 1..Len(FieldsOfType(type)) : FilterRaises(FieldsOfType(type)[i])}
    IN  IF raising = { } THEN 0 ELSE CHOOSE i \in raising : \A j \in raising : i <= j

\* PreviewTableDataTool.ts:40-61 (part_001:45-66): execute from the schema to
\* its request.
PreviewPlan(schema, in, paginated) ==
    LET type == tableType(schema, in.tableName)
    IN  IF Falsy(type) THEN TableNotFound(in.tableName)
        ELSE IF FirstRaising(type) # 0
        THEN TypeError(currentType(Get(FieldsOfType(type)[FirstRaising(type)], "type")).kind,
                       "kind")
        ELSE IF paginated
        THEN Request(PaginatedQuery(in.tableName, fieldsString(type)),
                     PaginatedVariables(OrDefault(in.limit, DefaultLimit),
                                        OrDefault(in.offset, DefaultOffset)))
        ELSE Request(PreviewQuery(in.tableName, fieldsString(type)),
                     PreviewVariables(OrDefault(in.limit, DefaultLimit)))

\* part_001:69-75
PaginatedResponse(result, in) ==
    IF Falsy(result) THEN TypeError(result.kind, PropertyKey(in.tableName))
    ELSE LET tableData == IF result.kind = "object"
                          THEN Get(result, PropertyKey(in.tableName))
                          ELSE Undefined
         IN  Return(JObj(<<Entry("data", result),
                           Entry("returnedCount",
                                 JNum(IF tableData.kind = "array" THEN Len(tableData.items) ELSE 0)),
                           Entry("limit", JNum(OrDefault(in.limit, DefaultLimit))),
                           Entry("offset", JNum(OrDefault(in.offset, DefaultOffset)))>>))

PreviewTables == {TableT, TableU, TableN, EnumE}

PreviewLimits == {None, Some(7)}

PreviewOffsets == {None, Some(3)}

PreviewData ==
    { JObj(<<Entry("t", JArr(<<JObj(<<Entry("id", JNum(1))>>), JObj(<<Entry("id", JNum(2))>>)>>))>>) }

PreviewOutcomes == {DataOutcome(d) : d \in PreviewData} \cup FailureOutcomes

PreviewTools == {"preview_table_data", "preview_table_data/paginated"}

\* execute up to `await this.getIntrospectionSchema()`: the call returns the
\* cached schema or issues the introspection request, and in both cases
\* execute yields before it goes on.
InvokeSchemaTool(name, in) ==
    /\ tpc = "idle"
    /\ Enter(ToolCaller)
    /\ Proceed(name, in, AwaitSchema)

\* The introspection request of the tool's call settles and
\* getIntrospectionSchema runs to its end (index.ts:87-97); execute has not
\* resumed yet.
SettleToolSchema(o) ==
    /\ tpc = "schema"
    /\ Settle(ToolCaller, o)
    /\ UNCHANGED toolVars

\* The tool's call of getIntrospectionSchema has settled and execute has not
\* resumed.
SchemaSettled(names) ==
    /\ tool \in names
    /\ tpc = "schema"
    /\ pc[ToolCaller] = "done"

InvokePreview(name, in) == InvokeSchemaTool(name, in)

\* execute resumes after `await this.getIntrospectionSchema()`: it re-raises
\* what the call raised, or goes on with the schema the call returned,
\* whatever the cache holds by now.
ResumePreview ==
    /\ SchemaSettled(PreviewTools)
    /\ Proceed(tool, input,
               IF ret[ToolCaller].kind = "throw" THEN ret[ToolCaller]
               ELSE PreviewPlan(ret[ToolCaller].value.obj, input,
                                tool = "preview_table_data/paginated"))
    /\ UNCHANGED cacheVars

\* execute after a request has settled: it raises what result says, or
\* returns the serialisation of its value.
Complete(name, o, result) ==
    /\ tool = name
    /\ tpc = "awaiting"
    /\ tsettled' = o
    /\ tpc' = "done"
    /\ tret' = IF result.kind = "throw" THEN result ELSE Return(TextResult(result.value))
    /\ payload' = IF result.kind = "throw" THEN Undefined ELSE result.value
    /\ UNCHANGED <<tool, input, sent, history, cacheVars>>

\* PreviewTableDataTool.ts:61-67
SettlePreview(o) ==
    Finish("preview_table_data", o, IF o.kind = "data" THEN o.data ELSE Undefined)

\* part_001:66-81
SettlePaginated(o) ==
    Complete("preview_table_data/paginated", o,
             IF o.kind = "data" THEN PaginatedResponse(o.data, input) ELSE makeGqlRequest(o))

\* The call has ended and the server takes the client's next request.
NextCall ==
    /\ tpc = "done"
    /\ history = << >>
    /\ history' = <<[tool |-> tool, input |-> input, sent |-> sent, tret |-> tret,
                     schema |-> ret[ToolCaller]]>>
    /\ tool' = "none"
    /\ input' = None
    /\ tpc' = "idle"
    /\ sent' = << >>
    /\ tsettled' = Pending
    /\ payload' = Undefined
    /\ tret' = Pending
    /\ UNCHANGED cacheVars

\* A server of which the client asks two previews, one after the other.
PreviewNext ==
    \/ MainCall /\ UNCHANGED toolVars
    \/ /\ pc[0] = "awaiting"
       /\ \E o \in SchemaOutcomes : Settle(0, o) /\ UNCHANGED toolVars
    \/ /\ tpc = "idle" /\ pc[0] = "done"
       /\ \E t \in PreviewTables, l \in PreviewLimits :
             InvokePreview("preview_table_data", [tableName |-> t, limit |-> l])
    \/ /\ tpc = "idle" /\ pc[0] = "done"
       /\ \E t \in PreviewTables, l \in PreviewLimits, s \in PreviewOffsets :
             InvokePreview("preview_table_data/paginated",
                           [tableName |-> t, limit |-> l, offset |-> s])
    \/ /\ pc[ToolCaller] = "awaiting"
       /\ \E o \in SchemaOutcomes : SettleToolSchema(o)
    \/ ResumePreview
    \/ /\ tpc = "awaiting"
       /\ \E o \in PreviewOutcomes : SettlePreview(o)
    \/ /\ tpc = "awaiting"
       /\ \E o \in PreviewOutcomes : SettlePaginated(o)
    \/ NextCall

PreviewSpec == Init /\ [][PreviewNext]_vars

\* ---------------------------------------------------------- describe_table

\* DescribeTableTool.ts:56-69, the levels of a field's type the query selects.
DescribeDepth == 4

RECURSIVE Selected(_, _)
\* What the backend returns for `kind name ofType { ... }` selected to the
\* given depth on a type reference: the deepest level has no ofType.
Selected(ref, depth) ==
    IF depth = 1
    THEN JObj(<<Entry("kind", Get(ref, "kind")), Entry("name", Get(ref, "name"))>>)
    ELSE JObj(<<Entry("kind", Get(ref, "kind")), Entry("name", Get(ref, "name")),
                Entry("ofType", IF Get(ref, "ofType").kind = "object"
                                THEN Selected(Get(ref, "ofType"), depth - 1)
                                ELSE JNull)>>)

\* What the backend returns for __type(name:) on a type with these fields.
Described(type) ==
    JObj(<<Entry("name", Get(type, "name")), Entry("kind", Get(type, "kind")),
           Entry("description", Get(type, "description")),
           Entry("fields",
                 IF Get(type, "fields").kind # "array" THEN JNull
                 ELSE JArr([i \in 1..Len(Get(type, "fields").items) |->
                              LET f == Get(type, "fields").items[i]
                              IN  JObj(<<Entry("name", Get(f, "name")),
                                         Entry("description", Get(f, "description")),
                                         Entry("type", Selected(Get(f, "type"), DescribeDepth)),
                                         Entry("args", Get(f, "args"))>>)]))>>)

\* DescribeTableTool.ts:47-87
tableTypeQuery ==
    <<"query GetTableType($typeName: String!) { __type(name: $typeName) { name kind description fields { name description type { kind name ofType { kind name ofType { kind name ofType { kind name } } } } args { name description type { kind name ofType { kind name } } } } } }">>

\* JavaScript truthiness: not null or undefined, and not the empty string, 0
\* or false.
Truthy(v) ==
    /\ ~Falsy(v)
    /\ v.kind = "string" => v.str # << >>
    /\ v.kind = "number" => v.val # 0
    /\ v.kind = "boolean" => v.val

RECURSIVE Unwrapped(_, _, _)
\* DescribeTableTool.ts:102-118, the loop: typeString, isNonNull and isList
\* when it ends.
Unwrapped(typeInfo, isNonNull, isList) ==
    IF ~Truthy(typeInfo)
    THEN [typeString |-> << >>, isNonNull |-> isNonNull, isList |-> isList]
    ELSE IF Get(typeInfo, "kind") = JStr(<<"NON_NULL">>)
    THEN Unwrapped(Get(typeInfo, "ofType"), TRUE, isList)
    ELSE IF Get(typeInfo, "kind") = JStr(<<"LIST">>)
    THEN Unwrapped(Get(typeInfo, "ofType"), isNonNull, TRUE)
    ELSE [typeString |-> IF Truthy(Get(typeInfo, "name")) THEN Get(typeInfo, "name").str
                         ELSE <<"unknown">>,
          isNonNull |-> isNonNull, isList |-> isList]

\* DescribeTableTool.ts:120-128
fullTypeString(type) ==
    LET u == Unwrapped(type, FALSE, FALSE)
    IN  (IF u.isList THEN <<"[">> \o u.typeString \o <<"]">> ELSE u.typeString)
            \o (IF u.isNonNull THEN <<"!">> ELSE << >>)

\* `x || null`
OrNull(v) == IF Truthy(v) THEN v ELSE JNull

\* DescribeTableTool.ts:130-135
ColumnInfo(field) ==
    JObj(<<Entry("name", Get(field, "name")),
           Entry("type", JStr(fullTypeString(Get(field, "type")))),
           Entry("description", OrNull(Get(field, "description"))),
           Entry("args", IF Get(field, "args").kind = "array" /\ Get(field, "args").items # << >>
                         THEN Get(field, "args") ELSE JNull)>>)

\* The characters of the names of this model, in the order in which
\* localeCompare puts them.
Alphabet ==
    <<"_", "a", "b", "c", "d", "e", "f", "g", "h", "i", "j", "k", "l", "m", "n", "o", "p",
      "q", "r", "s", "t", "u", "v", "w", "x", "y", "z">>

Rank(ch) == CHOOSE i \in 1..Len(Alphabet) : Alphabet[i] = ch

\* a.localeCompare(b) < 0, for names of these characters.
Before(a, b) ==
    \E k \in 1..Len(b) :
        /\ k <= Len(a) + 1
        /\ \A i \in 1..(k - 1) : a[i] = b[i]
        /\ k <= Len(a) => Rank(a[k]) < Rank(b[k])

\* Array.prototype.sort((a, b) => a.name.localeCompare(b.name)): stable.
SortedByName(items) ==
    LET name(i) == Get(items[i], "name").str
        place(i) == 1 + Cardinality({j \in 1..Len(items) :
                                        Before(name(j), name(i)) \/ (name(j) = name(i) /\ j < i)})
    IN  [k \in 1..Len(items) |-> items[CHOOSE i \in 1..Len(items) : place(i) = k]]

\* DescribeTableTool.ts:101-147, the result for a described type.
DescribeResult(type, in) ==
    IF Get(type, "fields").kind # "array" THEN TypeError(Get(type, "fields").kind, "map")
    ELSE
    Return(JObj(<<Entry("table",
                        JObj(<<Entry("name", JStr(in.tableName)),
                               Entry("schema", JStr(OrDefault(in.schemaName, <<"public">>))),
                               Entry("description", OrNull(Get(type, "description"))),
                               Entry("columns",
                                     JArr(SortedByName(
                                         [i \in 1..Len(Get(type, "fields").items) |->
                                            ColumnInfo(Get(type, "fields").items[i])])))>>))>>))

\* One character of String.prototype.toUpperCase.
UpperChar(ch) ==
    IF \E i \in 1..Len(LowerLetters) : LowerLetters[i] = ch
    THEN UpperLetters[CHOOSE i \in 1..Len(LowerLetters) : LowerLetters[i] = ch]
    ELSE ch

\* DescribeTableTool.ts:93
pascalCaseName(tableName) ==
    IF tableName = << >> THEN << >>
    ELSE <<UpperChar(tableName[1])>> \o SubSeq(tableName, 2, Len(tableName))

\* DescribeTableTool.ts:96
DescribeNotFound(tableName) ==
    Throw(<<"Table '">> \o tableName \o <<"' not found in schema. Check the table name and schema.">>)

DescribeRequest(typeName) ==
    Request(tableTypeQuery, JObj(<<Entry("typeName", JStr(typeName))>>))

\* The tables asked about, and what the backend may answer: a table with
\* columns of every shape, a table with relationships only, a scalar type,
\* no type of that name.
DescribeTables == {TableT, TableU}

DescribeSchemaNames == {None, Some(<<"s">>)}

\* Columns with a list in their type: a list of non-null items, a non-null
\* list, a list.
FieldsL ==
    <<FieldOf(<<"l">>, JNull, ListOf(NonNull(IntRef))),
      FieldOf(<<"m">>, JNull, NonNull(ListOf(IntRef))),
      FieldOf(<<"n">>, JNull, ListOf(IntRef))>>

\* A column nested one level deeper than the query selects: a non-null list
\* of non-null lists.
FieldsD ==
    <<FieldOf(<<"g">>, JNull, NonNull(ListOf(NonNull(ListOf(IntRef)))))>>

DescribeData ==
    { JObj(<<Entry("__type", Described(TypeOf("OBJECT", TableT, JArr(FieldsT))))>>),
      JObj(<<Entry("__type", Described(TypeOf("OBJECT", TableT, JArr(FieldsD))))>>),
      JObj(<<Entry("__type", Described(TypeOf("OBJECT", TableU, JArr(FieldsU))))>>),
      JObj(<<Entry("__type", Described(TypeOf("OBJECT", TableT, JArr(FieldsL))))>>),
      JObj(<<Entry("__type", Described(TypeOf("SCALAR", <<"I", "n", "t">>, JNull)))>>),
      JObj(<<Entry("__type", JNull)>>) }

DescribeOutcomes == {DataOutcome(d) : d \in DescribeData} \cup FailureOutcomes

\* DescribeTableTool.ts:40-45, to the await of getIntrospectionSchema.
InvokeDescribe(tableName, schemaName) ==
    InvokeSchemaTool("describe_table", [tableName |-> tableName, schemaName |-> schemaName])

\* DescribeTableTool.ts:45-89, execute resumes after getIntrospectionSchema
\* has settled.
ResumeDescribe ==
    /\ SchemaSettled({"describe_table"})
    /\ Proceed(tool, input,
               IF ret[ToolCaller].kind = "throw" THEN ret[ToolCaller]
               ELSE DescribeRequest(input.tableName))
    /\ UNCHANGED cacheVars

\* The __type of a response, or the TypeError of reading it.
TypeOfResponse(result) ==
    IF Falsy(result) THEN TypeError(result.kind, "__type")
    ELSE Return(IF result.kind = "object" THEN Get(result, "__type") ELSE Undefined)

\* DescribeTableTool.ts:91 (and 95), `!tableTypeResult.__type` where the
\* request has resolved and reading __type does not raise.
NoType(o) ==
    IF o.kind # "data" THEN FALSE
    ELSE IF TypeOfResponse(o.data).kind = "throw" THEN FALSE
    ELSE ~Truthy(TypeOfResponse(o.data).value)

\* DescribeTableTool.ts:89-94, the first request settles with no __type:
\* the second request is issued.
RetryDescribe(o) ==
    /\ tool = "describe_table"
    /\ tpc = "awaiting"
    /\ Len(sent) = 1
    /\ NoType(o)
    /\ tsettled' = o
    /\ sent' = Append(sent, [query |-> tableTypeQuery,
                             variables |-> Some(JObj(<<Entry("typeName",
                                                JStr(pascalCaseName(input.tableName)))>>))])
    /\ UNCHANGED <<tool, input, tpc, payload, tret, history, cacheVars>>

\* DescribeTableTool.ts:89-151, a request settles and execute ends: the
\* first with a failure or a __type, the second with anything.
SettleDescribe(o) ==
    /\ ~(Len(sent) = 1 /\ NoType(o))
    /\ Complete("describe_table", o,
                IF o.kind # "data" THEN makeGqlRequest(o)
                ELSE IF TypeOfResponse(o.data).kind = "throw" THEN TypeOfResponse(o.data)
                ELSE IF NoType(o) THEN DescribeNotFound(input.tableName)
                ELSE DescribeResult(TypeOfResponse(o.data).value, input))

\* -------------------------------------------------------------- root types

\* The properties of the schema that declare its root types.
RootProperties == <<"queryType", "mutationType", "subscriptionType">>

\* [schema.queryType?.name, schema.mutationType?.name,
\*  schema.subscriptionType?.name].filter(Boolean)
rootTypeNames(schema) ==
    {Get(Get(schema, RootProperties[i]), "name") :
        i \in {j \in 1..Len(RootProperties) : ~Falsy(Get(schema, RootProperties[j]))}}

\* The predicate of the filter with the reserved prefix left out.
IsCustomRoot_anyPrefix(schema, t) ==
    /\ Get(t, "kind") = JStr(<<"OBJECT">>)
    /\ EndsWith(Get(t, "name").str, RootSuffix)
    /\ Get(t, "name") \notin rootTypeNames(schema)

\* The predicate of the filter that gives allRootTypes.
IsCustomRoot(schema, t) ==
    /\ Get(t, "kind") = JStr(<<"OBJECT">>)
    /\ EndsWith(Get(t, "name").str, RootSuffix)
    /\ Get(t, "name") \notin rootTypeNames(schema)
    /\ ~StartsWith(Get(t, "name").str, ReservedPrefix)

\* schema.types.filter(...), in the order of schema.types.
allRootTypes(schema) == SelectSeq(TypesOf(schema), LAMBDA t : IsCustomRoot(schema, t))

\* standardTypes: the names of the declared root types.
standardTypes(schema) ==
    LET keys == <<"query", "mutation", "subscription">>
        declared == SelectSeq(<<1, 2, 3>>, LAMBDA i : ~Falsy(Get(schema, RootProperties[i])))
    IN  JObj([k \in 1..Len(declared) |->
                 Entry(keys[declared[k]],
                       Get(Get(schema, RootProperties[declared[k]]), "name"))])

\* 'fields' in t ? t.fields.length : 0
fieldCount(t) ==
    IF Get(t, "fields").kind = "undefined" THEN 0 ELSE Len(Get(t, "fields").items)

CheckRecommendation(n) ==
    IF n > 0
    THEN <<"Found ", ToString(n), " custom root type(s). These types may indicate: 1) Custom schema configuration requiring special handling, 2) Federation or stitching setup with custom root types, or 3) Schema design patterns not following GraphQL conventions. Review these types to determine if they need to be queried through special endpoints or if the schema configuration needs adjustment.">>
    ELSE <<"No custom root types detected. Schema follows standard GraphQL conventions with standard Query/Mutation/Subscription types.">>

\* ListRootFieldsTool.ts:33
DefaultListLimit == 10

\* The values of fieldType, in the order of the root properties.
FieldTypes == <<<<"Q", "U", "E", "R", "Y">>, <<"M", "U", "T", "A", "T", "I", "O", "N">>,
                <<"S", "U", "B", "S", "C", "R", "I", "P", "T", "I", "O", "N">>>>

\* The root properties a call reads: those of the field type asked for, or
\* all of them, that the schema declares.
SelectedRoots(schema, fieldType) ==
    SelectSeq(<<1, 2, 3>>,
              LAMBDA i : /\ ~fieldType.present \/ fieldType.val = FieldTypes[i]
                         /\ ~Falsy(Get(schema, RootProperties[i])))

\* supportedTypes, a Set.
supportedTypes(schema, fieldType) ==
    {Get(Get(schema, RootProperties[SelectedRoots(schema, fieldType)[k]]), "name") :
        k \in 1..Len(SelectedRoots(schema, fieldType))}

\* The types the forEach pushes to unsupportedTypes.
Unsupported(schema, fieldType) ==
    SelectSeq(allRootTypes(schema),
              LAMBDA t : /\ Get(t, "name") \notin supportedTypes(schema, fieldType)
                         /\ Get(t, "kind") = JStr(<<"OBJECT">>))

\* schema.types.find(t => t.name === name)?.fields || []
RootFields(schema, name) ==
    LET found == {i \in 1..Len(TypesOf(schema)) : Get(TypesOf(schema)[i], "name") = name}
        first == CHOOSE i \in found : \A j \in found : i <= j
    IN  IF found = { } THEN << >>
        ELSE IF Falsy(Get(TypesOf(schema)[first], "fields")) THEN << >>
        ELSE Get(TypesOf(schema)[first], "fields").items

\* fields with those of the custom root types appended.
fieldsOf_withCustomRoots(schema, fieldType) ==
    Concat([k \in 1..Len(SelectedRoots(schema, fieldType)) |->
               RootFields(schema,
                          Get(Get(schema, RootProperties[SelectedRoots(schema, fieldType)[k]]),
                              "name"))])
        \o Concat([k \in 1..Len(allRootTypes(schema)) |->
                      Get(allRootTypes(schema)[k], "fields").items])

\* fields, after the three concatenations.
fieldsOf(schema, fieldType) ==
    Concat([k \in 1..Len(SelectedRoots(schema, fieldType)) |->
               RootFields(schema,
                          Get(Get(schema, RootProperties[SelectedRoots(schema, fieldType)[k]]),
                              "name"))])

NoDescription == <<"N", "o", " ", "d", "e", "s", "c", "r", "i", "p", "t", "i", "o", "n", ".">>

\* { name: f.name, description: f.description || "No description." }
FieldInfo(f) ==
    JObj(<<Entry("name", Get(f, "name")),
           Entry("description",
                 IF Falsy(Get(f, "description")) THEN JStr(NoDescription)
                 ELSE Get(f, "description"))>>)

\* String.prototype.includes
Includes(str, part) ==
    \E i \in 0..(Len(str) - Len(part)) : SubSeq(str, i + 1, i + Len(part)) = part

\* The predicate of the filter on fieldInfo.
MatchesFilter(info, filter) ==
    \/ Includes(ToLowerCase(Get(info, "name").str), ToLowerCase(filter))
    \/ Includes(ToLowerCase(Get(info, "description").str), ToLowerCase(filter))

\* slice(0, end - start): the offset is not applied.
Slice_fromStart(items, start, end) ==
    SubSeq(items, 1, IF end - start < Len(items) THEN end - start ELSE Len(items))

\* Array.prototype.slice(start, end) for 0 <= start <= end.
Slice(items, start, end) ==
    IF start >= Len(items) THEN << >>
    ELSE SubSeq(items, start + 1, IF end < Len(items) THEN end ELSE Len(items))

RootWarning(names) ==
    <<"Found ", ToString(Len(names)), " potential custom root type(s) that are not standard Query/Mutation/Subscription types: ">>
        \o Join(names, <<", ">>)
        \o <<". These may require additional support to be queried.">>

\* The forEach reads the length of a fields property that is null.
CountRaises(suspects) ==
    \E i \in 1..Len(suspects) : Get(suspects[i], "fields").kind = "null"

\* part_000:35-86, with the schema at hand.
CheckPlan(schema) ==
    LET suspects == Unsupported(schema, None)
        unsupportedTypes == [i \in 1..Len(suspects) |->
                                JObj(<<Entry("name", Get(suspects[i], "name")),
                                       Entry("fieldCount", JNum(fieldCount(suspects[i])))>>)]
    IN  IF CountRaises(suspects) THEN TypeError("null", "length")
        ELSE Return(JObj(<<Entry("hasUnsupportedTypes", JBool(Len(unsupportedTypes) > 0)),
                           Entry("standardTypes", standardTypes(schema)),
                           Entry("unsupportedTypes", JArr(unsupportedTypes)),
                           Entry("recommendation",
                                 JStr(CheckRecommendation(Len(unsupportedTypes))))>>))

\* ListRootFieldsTool.ts:46-121, with the schema at hand.
ListPlan(schema, in) ==
    LET all == fieldsOf(schema, in.fieldType)
        fieldInfo == [i \in 1..Len(all) |-> FieldInfo(all[i])]
        filtered == IF in.filter.present
                    THEN SelectSeq(fieldInfo, LAMBDA f : MatchesFilter(f, in.filter.val))
                    ELSE fieldInfo
        sorted == SortedByName(filtered)
        limit == OrDefault(in.limit, DefaultListLimit)
        offset == OrDefault(in.offset, DefaultOffset)
        page == Slice(sorted, offset, offset + limit)
        suspects == Unsupported(schema, in.fieldType)
        names == [i \in 1..Len(suspects) |-> Get(suspects[i], "name").str]
    IN  Return(JObj(<<Entry("fields", JArr(page)),
                      Entry("totalCount", JNum(Len(fieldInfo))),
                      Entry("filteredCount", JNum(Len(sorted))),
                      Entry("returnedCount", JNum(Len(page))),
                      Entry("offset", JNum(offset)),
                      Entry("limit", JNum(limit))>>
                    \o IF Len(names) > 0
                       THEN <<Entry("warning", JStr(RootWarning(names))),
                              Entry("unsupportedTypes",
                                    JArr([i \in 1..Len(names) |-> JStr(names[i])]))>>
                       ELSE << >>))

RootTools == {"check_unsupported_root_types", "list_root_fields"}

RootPlan(name, schema, in) ==
    IF name = "list_root_fields" THEN ListPlan(schema, in) ELSE CheckPlan(schema)

\* What a client may pass to list_root_fields.
ListInputs ==
    [fieldType : {None} \cup {Some(FieldTypes[i]) : i \in 1..Len(FieldTypes)},
     filter : {None, Some(<<"M", "A">>), Some(<<"u">>)},
     limit : {None, Some(1)},
     offset : {None, Some(1)}]

\* check_unsupported_root_types takes no parameter.
CheckInputs == {[fieldType |-> None]}

\* ------------------------------------------------------------- list_tables

\* AggregateDataTool.ts:141-154
ListTablesQuery ==
    <<"query GetTablesWithDescriptions { __type(name: \"query_root\") { fields { name description type { name kind } } } }">>

\* The parts of a root field's name that mark it as no table.
SkippedParts ==
    { <<"_", "a", "g", "g", "r", "e", "g", "a", "t", "e">>, <<"_", "b", "y", "_", "p", "k">>,
      <<"_", "s", "t", "r", "e", "a", "m">>, <<"_", "m", "u", "t", "a", "t", "i", "o", "n">> }

\* value[key] of JavaScript for a value that is not null or undefined: a
\* number, a string, a boolean and an array have none of the properties the
\* tool reads by name.
Prop(value, key) == IF value.kind = "object" THEN Get(value, key) ELSE Undefined

\* AggregateDataTool.ts:164-170, the fields the loop does not skip, for a
\* name that is a string.
IsTableField(field) ==
    /\ \A part \in SkippedParts : ~Includes(Get(field, "name").str, part)
    /\ ~StartsWith(Get(field, "name").str, ReservedPrefix)

SchemaMark == <<"s", "c", "h", "e", "m", "a", ":">>

PublicSchema == <<"p", "u", "b", "l", "i", "c">>

\* The properties an object literal inherits from Object.prototype.
PrototypeProperties ==
    { <<"c", "o", "n", "s", "t", "r", "u", "c", "t", "o", "r">>,
      <<"_", "_", "p", "r", "o", "t", "o", "_", "_">>,
      <<"t", "o", "S", "t", "r", "i", "n", "g">>,
      <<"t", "o", "L", "o", "c", "a", "l", "e", "S", "t", "r", "i", "n", "g">>,
      <<"v", "a", "l", "u", "e", "O", "f">>,
      <<"h", "a", "s", "O", "w", "n", "P", "r", "o", "p", "e", "r", "t", "y">>,
      <<"i", "s", "P", "r", "o", "t", "o", "t", "y", "p", "e", "O", "f">>,
      <<"p", "r", "o", "p", "e", "r", "t", "y", "I", "s", "E", "n", "u", "m", "e", "r", "a", "b",
        "l", "e">>,
      <<"_", "_", "d", "e", "f", "i", "n", "e", "G", "e", "t", "t", "e", "r", "_", "_">>,
      <<"_", "_", "d", "e", "f", "i", "n", "e", "S", "e", "t", "t", "e", "r", "_", "_">>,
      <<"_", "_", "l", "o", "o", "k", "u", "p", "G", "e", "t", "t", "e", "r", "_", "_">>,
      <<"_", "_", "l", "o", "o", "k", "u", "p", "S", "e", "t", "t", "e", "r", "_", "_">> }

\* description.match(/schema:\s*([^\s,]+)/i)[1], or the empty string when
\* the expression does not match.
SchemaMatch(str) ==
    LET word(j) == ~IsWhitespace(str[j]) /\ str[j] # ","
        \* where the capture starts for a match that starts at i, 0 if none
        start(i) ==
            IF i + 6 > Len(str) THEN 0
            ELSE IF ToLowerCase(SubSeq(str, i, i + 6)) # SchemaMark THEN 0
            ELSE LET after == {j \in (i + 7)..Len(str) : ~IsWhitespace(str[j])}
                     first == CHOOSE j \in after : \A k \in after : j <= k
                 IN  IF after = { } THEN 0 ELSE IF str[first] = "," THEN 0 ELSE first
        matches == {i \in 1..Len(str) : start(i) # 0}
        from == start(CHOOSE i \in matches : \A k \in matches : i <= k)
        ends == {j \in from..Len(str) : \A k \in from..j : word(k)}
    IN  IF matches = { } THEN << >>
        ELSE SubSeq(str, from, CHOOSE j \in ends : \A k \in ends : j >= k)

\* AggregateDataTool.ts:172-178, for a description that is falsy, a string,
\* or an array without the element 'schema:'.
currentSchema(field) ==
    IF /\ Prop(field, "description").kind = "string"
       /\ Includes(Prop(field, "description").str, SchemaMark)
       /\ SchemaMatch(Prop(field, "description").str) # << >>
    THEN SchemaMatch(Prop(field, "description").str)
    ELSE PublicSchema

\* AggregateDataTool.ts:163-191, one turn of the loop: the field is skipped
\* or kept (pushed to its schema's tables), or the turn raises.
LoopStep(field, in) ==
    LET name == Prop(field, "name")
        description == Prop(field, "description")
        skip == [kind |-> "skip"]
    IN  IF field.kind \in {"null", "undefined"} THEN TypeError(field.kind, "name")
        ELSE IF name.kind \in {"null", "undefined"} THEN TypeError(name.kind, "includes")
        ELSE IF name.kind \notin {"string", "array"}
        THEN Throw(<<"field.name.includes is not a function">>)
        ELSE IF name.kind = "array"
        THEN IF \E part \in SkippedParts :
                   \E i \in 1..Len(name.items) : name.items[i] = JStr(part)
             THEN skip
             ELSE Throw(<<"field.name.startsWith is not a function">>)
        ELSE IF ~IsTableField(field) THEN skip
        ELSE IF Truthy(description) /\ description.kind \notin {"string", "array"}
        THEN Throw(<<"field.description.includes is not a function">>)
        ELSE IF /\ description.kind = "array"
                /\ \E i \in 1..Len(description.items) :
                      description.items[i] = JStr(SchemaMark)
        THEN Throw(<<"field.description.match is not a function">>)
        ELSE IF /\ in.schemaName.present
                /\ in.schemaName.val # << >>
                /\ currentSchema(field) # in.schemaName.val
        THEN skip
        ELSE IF currentSchema(field) \in PrototypeProperties
        THEN Throw(<<"tablesData[currentSchema].push is not a function">>)
        ELSE [kind |-> "keep"]

\* AggregateDataTool.ts:160-193, the fields pushed to tablesData, in order.
tablesData(fieldEntries, in) ==
    SelectSeq(fieldEntries, LAMBDA f : LoopStep(f, in).kind = "keep")

\* AggregateDataTool.ts:202-205, the predicate of the filter on tables.
MatchesTableFilter(t, filter) ==
    \/ Includes(ToLowerCase(Get(t, "name").str), ToLowerCase(filter))
    \/ /\ Truthy(Get(t, "description"))
       /\ Includes(ToLowerCase(Get(t, "description").str), ToLowerCase(filter))

\* AggregateDataTool.ts:196-225, the entry of one schema; a description that
\* is undefined is a property JSON.stringify leaves out.
SchemaEntry(schema, kept, in) ==
    LET ofSchema == SelectSeq(kept, LAMBDA f : currentSchema(f) = schema)
        tables == [i \in 1..Len(ofSchema) |->
                      JObj(<<Entry("name", Get(ofSchema[i], "name"))>>
                           \o IF Get(ofSchema[i], "description").kind = "undefined" THEN << >>
                              ELSE <<Entry("description", Get(ofSchema[i], "description"))>>)]
        filtered == IF in.filter.present /\ in.filter.val # << >>
                    THEN SelectSeq(tables, LAMBDA t : MatchesTableFilter(t, in.filter.val))
                    ELSE tables
        sorted == SortedByName(filtered)
        limit == OrDefault(in.limit, DefaultListLimit)
        offset == OrDefault(in.offset, DefaultOffset)
        page == Slice(sorted, offset, offset + limit)
    IN  JObj(<<Entry("schema", JStr(schema)),
               Entry("tables", JArr(page)),
               Entry("totalCount", JNum(Len(tables))),
               Entry("filteredCount", JNum(Len(sorted))),
               Entry("returnedCount", JNum(Len(page))),
               Entry("offset", JNum(offset)),
               Entry("limit", JNum(limit))>>)

\* AggregateDataTool.ts:195-227: one entry for every schema of tablesData,
\* without those that list no table, in the order of the schema names.
formattedOutput(kept, in) ==
    LET schemas == {currentSchema(kept[i]) : i \in 1..Len(kept)}
        listed == {s \in schemas : Get(SchemaEntry(s, kept, in), "tables").items # << >>}
        place(s) == 1 + Cardinality({r \in listed : Before(r, s)})
    IN  JArr([k \in 1..Cardinality(listed) |->
                 SchemaEntry(CHOOSE s \in listed : place(s) = k, kept, in)])

\* AggregateDataTool.ts:156-229, once the request has resolved with result.
ListTablesResult(result, in) ==
    LET type == Prop(result, "__type")
        fields == Prop(type, "fields")
        \* for...of over an array, or over the characters of a string
        fieldEntries == IF fields.kind = "string"
                        THEN [i \in 1..Len(fields.str) |->
                                 JStr(<<fields.str[i]>>)]
                        ELSE fields.items
        raising == {i \in 1..Len(fieldEntries) : LoopStep(fieldEntries[i], in).kind = "throw"}
        kept == tablesData(fieldEntries, in)
        \* the filter reads toLowerCase of a description that is an array
        unfilterable(f) ==
            /\ Get(f, "description").kind = "array"
            /\ ~Includes(ToLowerCase(Get(f, "name").str), ToLowerCase(in.filter.val))
    IN  IF result.kind \in {"null", "undefined"} THEN TypeError(result.kind, "__type")
        ELSE IF ~Truthy(type) THEN Return(JArr(<< >>))
        ELSE IF ~Truthy(fields) THEN Return(JArr(<< >>))
        ELSE IF fields.kind \notin {"array", "string"}
        THEN Throw(<<"fieldEntries is not iterable">>)
        ELSE IF raising # { }
        THEN LoopStep(fieldEntries[CHOOSE i \in raising : \A k \in raising : i <= k], in)
        ELSE IF /\ in.filter.present
                /\ in.filter.val # << >>
                /\ \E i \in 1..Len(kept) : unfilterable(kept[i])
        THEN Throw(<<"t.description.toLowerCase is not a function">>)
        ELSE Return(formattedOutput(kept, in))

\* AggregateDataTool.ts:139-156: getIntrospectionSchema has settled with
\* after, and the tool sends its one request, which has no variables.
ListTablesGoesOn(in, after) ==
    /\ tool' = "list_tables"
    /\ input' = in
    /\ tsettled' = Pending
    /\ tpc' = IF after.kind = "throw" THEN "done" ELSE "awaiting"
    /\ sent' = IF after.kind = "throw" THEN sent
               ELSE Append(sent, [query |-> ListTablesQuery, variables |-> None])
    /\ tret' = IF after.kind = "throw" THEN after ELSE Pending
    /\ payload' = Undefined
    /\ UNCHANGED history

\* AggregateDataTool.ts:134-139, to the await of getIntrospectionSchema.
InvokeListTables(in) == InvokeSchemaTool("list_tables", in)

\* AggregateDataTool.ts:139-156, execute resumes after getIntrospectionSchema
\* has settled.
ResumeListTables ==
    /\ SchemaSettled({"list_tables"})
    /\ ListTablesGoesOn(input, ret[ToolCaller])
    /\ UNCHANGED cacheVars

\* AggregateDataTool.ts:156-233, after the request has settled.
SettleListTables(o) ==
    Complete("list_tables", o,
             IF o.kind # "data" THEN makeGqlRequest(o) ELSE ListTablesResult(o.data, input))

\* Root fields of query_root as the request returns them: three tables of
\* the public schema, one of them with "Schema:" in its description, a table
\* of schema a, and three fields that are no tables.
TableFields ==
    LET field(name, description) ==
            JObj(<<Entry("name", JStr(name)), Entry("description", description)>>)
    IN  << field(<<"u">>, JNull),
           field(<<"v">>, JStr(<<"S", "c", "h", "e", "m", "a", ":", " ", "a", ",", "x">>)),
           field(<<"t">>, JStr(<<"M", "a", "i", "n">>)),
           field(<<"w">>, JStr(<<"s", "c", "h", "e", "m", "a", ":", " ", "a", ",", "x">>)),
           field(<<"t", "_", "a", "g", "g", "r", "e", "g", "a", "t", "e">>, JNull),
           field(<<"t", "_", "b", "y", "_", "p", "k">>, JNull),
           field(<<"_", "_", "x">>, JNull) >>

ListTablesData ==
    { JObj(<<Entry("__type", JObj(<<Entry("fields", JArr(TableFields))>>))>>),
      JObj(<<Entry("__type", JNull)>>),
      JNull }

ListTablesOutcomes == {DataOutcome(d) : d \in ListTablesData} \cup FailureOutcomes

ListTablesInputs ==
    { [schemaName |-> None, filter |-> None, limit |-> None, offset |-> None],
      [schemaName |-> None, filter |-> None, limit |-> Some(1), offset |-> Some(1)],
      [schemaName |-> Some(<<"a">>), filter |-> None, limit |-> None, offset |-> None],
      [schemaName |-> None, filter |-> Some(<<"M", "A">>), limit |-> None, offset |-> None],
      [schemaName |-> Some(<<"x">>), filter |-> None, limit |-> None, offset |-> None] }

\* ---------------------------------------------------- describe_graphql_type

\* part_002:94
TypeNotFound(typeName) ==
    Throw(<<"Type '">> \o typeName \o <<"' not found in the schema.">>)

\* The elements xs?.map(f) || [] maps: those of an array, none of a property
\* that is null or absent.
ItemsOrEmpty(xs) == IF xs.kind = "array" THEN xs.items ELSE << >>

\* part_002:106, one element of args.
ArgInfo(a) ==
    JObj(<<Entry("name", Get(a, "name")),
           Entry("type", JStr(JSONcompact(Get(a, "type"))))>>)

\* part_002:102-107, one element of fields.
TypeFieldInfo(f) ==
    JObj(<<Entry("name", Get(f, "name")),
           Entry("description", OrNull(Get(f, "description"))),
           Entry("type", JStr(JSONcompact(Get(f, "type")))),
           Entry("args", JArr([i \in 1..Len(ItemsOrEmpty(Get(f, "args"))) |->
                                  ArgInfo(ItemsOrEmpty(Get(f, "args"))[i])]))>>)

\* part_002:110-114, one element of inputFields.
InputFieldInfo(f) ==
    JObj(<<Entry("name", Get(f, "name")),
           Entry("description", OrNull(Get(f, "description"))),
           Entry("type", JStr(JSONcompact(Get(f, "type"))))>>)

\* part_002:117, one element of enumValues.
EnumValueInfo(ev) ==
    JObj(<<Entry("name", Get(ev, "name")),
           Entry("description", OrNull(Get(ev, "description")))>>)

\* part_002:120, one element of possibleTypes.
PossibleTypeName(pt) == Get(pt, "name")

\* part_002:97-122
formattedInfo(typeInfo) ==
    LET kind == Get(typeInfo, "kind").str
        fs == ItemsOrEmpty(Get(typeInfo, "fields"))
        inputs == ItemsOrEmpty(Get(typeInfo, "inputFields"))
        values == ItemsOrEmpty(Get(typeInfo, "enumValues"))
        possible == ItemsOrEmpty(Get(typeInfo, "possibleTypes"))
    IN  JObj(<<Entry("kind", Get(typeInfo, "kind")),
               Entry("name", Get(typeInfo, "name")),
               Entry("description", OrNull(Get(typeInfo, "description")))>>
             \o (IF kind \in {<<"OBJECT">>, <<"INTERFACE">>}
                 THEN <<Entry("fields", JArr([i \in 1..Len(fs) |-> TypeFieldInfo(fs[i])]))>>
                 ELSE << >>)
             \o (IF kind = <<"INPUT_OBJECT">>
                 THEN <<Entry("inputFields",
                              JArr([i \in 1..Len(inputs) |-> InputFieldInfo(inputs[i])]))>>
                 ELSE << >>)
             \o (IF kind = <<"ENUM">>
                 THEN <<Entry("enumValues",
                              JArr([i \in 1..Len(values) |-> EnumValueInfo(values[i])]))>>
                 ELSE << >>)
             \o (IF kind \in {<<"UNION">>, <<"INTERFACE">>}
                 THEN <<Entry("possibleTypes",
                              JArr([i \in 1..Len(possible) |-> PossibleTypeName(possible[i])]))>>
                 ELSE << >>))

\* part_002:92-124, with the schema at hand.
DescribeTypePlan(schema, in) ==
    LET found == {i \in 1..Len(TypesOf(schema)) :
                     Get(TypesOf(schema)[i], "name") = JStr(in.typeName)}
    IN  IF found = { } THEN TypeNotFound(in.typeName)
        ELSE Return(formattedInfo(TypesOf(schema)[CHOOSE i \in found : \A j \in found : i <= j]))

\* typeName: an object type, an enum, an input object, no type of any schema.
TypeNameInputs == {[typeName |-> n] : n \in {TableT, EnumE, InputRoot, <<"x">>}}

\* The tools that read the schema and issue no request of their own.
SchemaTools == RootTools \cup {"describe_graphql_type"}

SchemaPlan(name, schema, in) ==
    IF name = "describe_graphql_type" THEN DescribeTypePlan(schema, in)
    ELSE RootPlan(name, schema, in)

\* execute up to `await this.getIntrospectionSchema()`.
InvokeRootTool(name, in) == InvokeSchemaTool(name, in)

\* execute resumes after getIntrospectionSchema has settled: it re-raises
\* what the call raised, or runs to its end on the schema the call returned.
ResumeRootTool ==
    /\ SchemaSettled(SchemaTools)
    /\ Proceed(tool, input,
               IF ret[ToolCaller].kind = "throw" THEN ret[ToolCaller]
               ELSE SchemaPlan(tool, ret[ToolCaller].value.obj, input))
    /\ UNCHANGED cacheVars

\* ----------------------------------------------------------- health_check

\* The endpoint the server was started with (index.ts:39).
hasuraEndpoint == <<"http://hasura/v1/graphql">>

\* What fetch does for the HTTP probe: it resolves with a response, or
\* rejects (ErrorOutcome).
ResponseOutcome(status, statusText) ==
    [kind |-> "response", status |-> status, statusText |-> statusText]

\* response.ok
Ok_always(o) == TRUE

Ok(o) == o.status >= 200 /\ o.status <= 299

\* HealthCheckTool.ts:44
HealthQuery == <<"query HealthCheck { __typename }">>

\* HealthCheckTool.ts:40
HttpResultText(url, o) ==
    <<"Health endpoint ", url, " status: ", ToString(o.status), " ", o.statusText>>

\* HealthCheckTool.ts:46
GqlResultText(result) ==
    <<"GraphQL endpoint ">> \o hasuraEndpoint \o <<" is responsive. Result: ">>
        \o Interpolated(result)

\* HealthCheckTool.ts:48
HealthSuccess(resultText) ==
    [content |-> <<[type |-> "text", text |-> <<"Health check successful. ">> \o resultText]>>]

\* HealthCheckTool.ts:51
HealthFailure(message) ==
    [content |-> <<[type |-> "text", text |-> <<"Health check failed: ">> \o message]>>,
     isError |-> FALSE]

\* HealthCheckTool.ts:31-45, to the await of fetch or of makeGqlRequest.
InvokeHealth(in) ==
    /\ tpc = "idle"
    /\ tool' = "health_check"
    /\ input' = in
    /\ tsettled' = Pending
    /\ payload' = Undefined
    /\ tret' = Pending
    /\ IF in.healthEndpointUrl.present
       THEN tpc' = "probing" /\ sent' = sent
       ELSE /\ tpc' = "awaiting"
            /\ sent' = Append(sent, [query |-> HealthQuery, variables |-> None])
    /\ UNCHANGED <<cacheVars, history>>

\* The value execute returns, whatever happened.
HealthEnds(o, result) ==
    /\ tsettled' = o
    /\ tpc' = "done"
    /\ tret' = Return(result)
    /\ payload' = Undefined
    /\ UNCHANGED <<tool, input, sent, history, cacheVars>>

\* HealthCheckTool.ts:39-41 and 48-52, once fetch has settled.
SettleHealthProbe(o) ==
    /\ tool = "health_check"
    /\ tpc = "probing"
    /\ HealthEnds(o, IF o.kind = "error" THEN HealthFailure(o.message)
                     ELSE IF ~Ok(o)
                     THEN HealthFailure(HttpResultText(input.healthEndpointUrl.val, o))
                     ELSE HealthSuccess(HttpResultText(input.healthEndpointUrl.val, o)))

\* HealthCheckTool.ts:45-52, once makeGqlRequest has settled.
SettleHealth(o) ==
    /\ tool = "health_check"
    /\ tpc = "awaiting"
    /\ HealthEnds(o, IF makeGqlRequest(o).kind = "throw"
                     THEN HealthFailure(makeGqlRequest(o).message)
                     ELSE HealthSuccess(GqlResultText(makeGqlRequest(o).value)))

\* healthEndpointUrl: absent, or a URL.
HealthInputs == {[healthEndpointUrl |-> u] : u \in {None, Some("http://hasura/healthz")}}

HealthData == {JObj(<<Entry("__typename", JStr(<<"query_root">>))>>), JNull}

HealthOutcomes == {DataOutcome(d) : d \in HealthData} \cup FailureOutcomes

ProbeOutcomes ==
    { ResponseOutcome(200, "OK"), ResponseOutcome(503, "Service Unavailable"),
      ErrorOutcome(<<"fetch failed">>) }

\* ------------------------------------------------------------- the server

\* The documents passed to the passthrough tools of a connected server.
ServerDocuments == {QueryOp, MutationOp}

\* The server: main's start-up call, then one tool call, next to which
\* another request of the client may call getIntrospectionSchema.
\* What the backend may answer to the introspection request of the other
\* caller, and to that of the tool call: a schema, another schema, a failure.
OtherOutcomes ==
    { DataOutcome(JObj(<<Entry("__schema", SchemaPlain)>>)),
      DataOutcome(JObj(<<Entry("__schema", SchemaRoots)>>)),
      ErrorOutcome(<<"fetch failed">>) }

ServerNext ==
    \/ MainCall /\ UNCHANGED toolVars
    \/ /\ pc[0] = "awaiting"
       /\ \E o \in SchemaOutcomes : Settle(0, o) /\ UNCHANGED toolVars
    \/ Call(OtherCaller) /\ UNCHANGED toolVars
    \/ /\ pc[OtherCaller] = "awaiting"
       /\ \E o \in OtherOutcomes : Settle(OtherCaller, o) /\ UNCHANGED toolVars
    \/ /\ tpc = "idle" /\ pc[0] = "done"
       /\ \E q \in ServerDocuments, f \in FlagInputs : InvokeQuery(q, None, f)
    \/ /\ tpc = "awaiting"
       /\ \E o \in TrimOutcomes : SettleQuery(o)
    \/ /\ tpc = "idle" /\ pc[0] = "done"
       /\ \E q \in ServerDocuments, l \in LimitInputs : InvokeLimitQuery(q, None, l, None, None)
    \/ /\ tpc = "awaiting"
       /\ \E o \in PlainOutcomes : SettleLimitQuery(o)
    \/ /\ tpc = "idle" /\ pc[0] = "done"
       /\ \E q \in ServerDocuments : InvokePlainQuery(q, None)
    \/ /\ tpc = "awaiting"
       /\ \E o \in PlainOutcomes : SettlePlainQuery(o)
    \/ /\ tpc = "idle" /\ pc[0] = "done"
       /\ \E q \in ServerDocuments : InvokeMutation(q, None)
    \/ /\ tpc = "awaiting"
       /\ \E o \in PlainOutcomes : SettleMutation(o)
    \/ /\ tpc = "idle" /\ pc[0] = "done"
       /\ \E t \in TableInputs, a \in AggregateFunctions, f \in FieldInputs, w \in FilterInputs :
             InvokeAggregate(t, a, f, w)
    \/ /\ tpc = "awaiting"
       /\ \E o \in AggregateOutcomes : SettleAggregate(o)
    \/ /\ tpc = "idle" /\ pc[0] = "done"
       /\ \E in \in ListTablesInputs : InvokeListTables(in)
    \/ ResumeListTables
    \/ /\ tool = "list_tables" /\ tpc = "awaiting"
       /\ \E o \in ListTablesOutcomes : SettleListTables(o)
    \/ /\ tpc = "idle" /\ pc[0] = "done"
       /\ \E t \in PreviewTables, l \in PreviewLimits :
             InvokePreview("preview_table_data", [tableName |-> t, limit |-> l])
    \/ /\ tpc = "idle" /\ pc[0] = "done"
       /\ \E t \in PreviewTables, l \in PreviewLimits, s \in PreviewOffsets :
             InvokePreview("preview_table_data/paginated",
                           [tableName |-> t, limit |-> l, offset |-> s])
    \/ /\ pc[ToolCaller] = "awaiting"
       /\ \E o \in OtherOutcomes : SettleToolSchema(o)
    \/ ResumePreview
    \/ /\ tpc = "awaiting"
       /\ \E o \in PreviewOutcomes : SettlePreview(o)
    \/ /\ tpc = "awaiting"
       /\ \E o \in PreviewOutcomes : SettlePaginated(o)
    \/ /\ tpc = "idle" /\ pc[0] = "done"
       /\ \E t \in DescribeTables, n \in DescribeSchemaNames : InvokeDescribe(t, n)
    \/ ResumeDescribe
    \/ /\ tpc = "awaiting"
       /\ \E o \in DescribeOutcomes : RetryDescribe(o)
    \/ /\ tpc = "awaiting"
       /\ \E o \in DescribeOutcomes : SettleDescribe(o)
    \/ /\ tpc = "idle" /\ pc[0] = "done"
       /\ \E in \in CheckInputs : InvokeRootTool("check_unsupported_root_types", in)
    \/ /\ tpc = "idle" /\ pc[0] = "done"
       /\ \E in \in ListInputs : InvokeRootTool("list_root_fields", in)
    \/ /\ tpc = "idle" /\ pc[0] = "done"
       /\ \E in \in TypeNameInputs : InvokeRootTool("describe_graphql_type", in)
    \/ ResumeRootTool
    \/ /\ tpc = "idle" /\ pc[0] = "done"
       /\ \E in \in HealthInputs : InvokeHealth(in)
    \/ /\ tpc = "probing"
       /\ \E o \in ProbeOutcomes : SettleHealthProbe(o)
    \/ /\ tpc = "awaiting"
       /\ \E o \in HealthOutcomes : SettleHealth(o)

ServerSpec == Init /\ [][ServerNext]_vars

\* The server with list_root_fields as the only tool a client calls.
ListNext ==
    \/ MainCall /\ UNCHANGED toolVars
    \/ /\ pc[0] = "awaiting"
       /\ \E o \in SchemaOutcomes : Settle(0, o) /\ UNCHANGED toolVars
    \/ /\ tpc = "idle" /\ pc[0] = "done"
       /\ \E in \in ListInputs : InvokeRootTool("list_root_fields", in)
    \/ /\ pc[ToolCaller] = "awaiting"
       /\ \E o \in SchemaOutcomes : SettleToolSchema(o)
    \/ ResumeRootTool

ListSpec == Init /\ [][ListNext]_vars

\* ------------------------------------------------------------------ claims

InFlight == {c \in Callers : pc[c] = "awaiting"}

\* C1: at most one introspection request is in flight at any moment.
C1_SingleFlight == Cardinality(InFlight) <= 1

\* C2: under non-overlapping calls, once the cache holds a schema no further
\* introspection request is issued (the request that filled the cache is the
\* last one issued) and every call that has returned normally returned the
\* very reference the cache holds.
C2_CachedNoRefetch ==
    introspectionSchema # JNull =>
        /\ fetchCount = introspectionSchema.ref
        /\ \A c \in Callers : ret[c].kind = "return" => ret[c].value = introspectionSchema

\* A call has returned the cached schema without a request of its own.
C2_Witness ==
    \E c \in Callers :
        /\ ret[c].kind = "return"
        /\ ticket[c] = 0
        /\ ret[c].value = introspectionSchema
        /\ ret[0].kind = "return"

\* sub occurs in msg.
Contains(msg, sub) ==
    \E i \in 0..(Len(msg) - Len(sub)) : SubSeq(msg, i + 1, i + Len(sub)) = sub

\* The introspection request raised, or its response has no __schema object.
FetchFailed(o) ==
    \/ o.kind \in {"clientError", "error"}
    \/ /\ o.kind = "data"
       /\ \/ o.data.kind # "object"
          \/ Get(o.data, "__schema").kind # "object"

\* The message names the cause of the failure o.
NamesCause(msg, o) ==
    /\ Len(msg) >= 2
    /\ msg[1] = "Failed to get GraphQL schema: "
    /\ o.kind = "error" => Contains(msg, o.message)
    /\ (o.kind = "clientError" /\ o.hasErrors) =>
           \A i \in 1..Len(o.errors) : Contains(msg, o.errors[i])
    /\ (o.kind = "data" /\ o.data.kind = "object") =>
           Contains(msg, <<"Introspection query did not return a __schema object.">>)

\* C3: a call whose request fails raises an error naming the cause and
\* leaves the cache empty; a call entered while the cache is empty issues a
\* new introspection request.
C3_FailedFetchRetryable ==
    [][\A c \in Callers :
          /\ (pc[c] = "awaiting" /\ pc'[c] = "done" /\ FetchFailed(settled'[ticket[c]])) =>
                 /\ ret'[c].kind = "throw"
                 /\ NamesCause(ret'[c].message, settled'[ticket[c]])
                 /\ introspectionSchema' = JNull
          /\ (pc[c] # "awaiting" /\ introspectionSchema = JNull
                 /\ <<pc[c], ret[c], ticket[c]>> # <<pc'[c], ret'[c], ticket'[c]>>) =>
                 /\ pc'[c] = "awaiting"
                 /\ fetchCount' = fetchCount + 1
                 /\ ticket'[c] = fetchCount']_vars

\* After main's failed fetch a later call has issued a second request.
C3_Witness ==
    /\ ret[0].kind = "throw"
    /\ introspectionSchema = JNull
    /\ \E c \in Callers : pc[c] = "awaiting" /\ ticket[c] = 2

\* r is the whole __schema object of the successful response to request r.ref.
WholeSchemaOfResponse(r) ==
    /\ r.ref \in 1..MaxFetches
    /\ settled[r.ref].kind = "data"
    /\ settled[r.ref].data.kind = "object"
    /\ Get(settled[r.ref].data, "__schema").kind = "object"
    /\ r.obj = Get(settled[r.ref].data, "__schema")

\* C4: the cache is empty or holds exactly the complete __schema object of
\* one successful response, and so does every value a call returned.
C4_NoPartialSchema ==
    /\ introspectionSchema # JNull => WholeSchemaOfResponse(introspectionSchema)
    /\ \A c \in Callers : ret[c].kind = "return" => WholeSchemaOfResponse(ret[c].value)

\* Two fetches overlapped and both succeeded: the cache holds the later
\* writer's schema while an earlier caller holds the other one.
C4_Witness ==
    \E c \in Callers :
        /\ ret[c].kind = "return"
        /\ introspectionSchema # JNull
        /\ ret[c].value.ref # introspectionSchema.ref
        /\ ret[c].value.obj # introspectionSchema.obj

QueryTools == {"run_graphql_query", "run_graphql_query/limit", "run_graphql_query/plain"}

\* The document of the current call.
CallDocument == IF tool = "run_graphql_mutation" THEN input.mutation ELSE input.query

\* After its leading white space the document begins, in any letter case,
\* with the keyword mutation.
BeginsWithMutationKeyword(doc) ==
    \E k \in 1..Len(doc) :
        /\ \A j \in 1..(k - 1) : IsWhitespace(doc[j])
        /\ Len(doc) >= k + Len(KwMutation) - 1
        /\ \A i \in 1..Len(KwMutation) : LowerChar(doc[k + i - 1]) = KwMutation[i]

\* The call was rejected before any request.
RejectedBeforeRequest == tpc = "done" /\ tret.kind = "throw" /\ sent = << >>

\* The limit-checking tool's input has no override and no limit within 100.
OverCeiling ==
    /\ input.forceBigQuery # Some(TRUE)
    /\ (input.limit = None \/ input.limit.val > 100)

\* C5 as claimed: without override and without a limit <= 100 the call raises
\* and sends nothing; in every other case the request is sent.
C5_Original ==
    (tool = "run_graphql_query/limit" /\ tpc # "idle") =>
        IF OverCeiling THEN RejectedBeforeRequest ELSE Len(sent) = 1

\* C5, amended: without override and without a limit <= 100 the call raises
\* and sends nothing; in every other case the request is sent exactly when
\* the document passes the role check, and a document that fails the role
\* check is rejected without a request whatever its limit.
C5_PreflightCeiling ==
    (tool = "run_graphql_query/limit" /\ tpc # "idle") =>
        IF OverCeiling \/ BeginsWithMutationKeyword(input.query)
        THEN RejectedBeforeRequest
        ELSE Len(sent) = 1 /\ sent[1].query = input.query

\* A read-only document with limit 101 and forceBigQuery false was rejected
\* by the safety check.
C5_Witness ==
    /\ tool = "run_graphql_query/limit"
    /\ input.limit = Some(101)
    /\ input.forceBigQuery = Some(FALSE)
    /\ ~BeginsWithMutationKeyword(input.query)
    /\ tret = LimitError
    /\ sent = << >>

RECURSIVE AllArraysWithin(_, _)
\* No array anywhere in value has more than n entries.
AllArraysWithin(value, n) ==
    IF value.kind = "array"
    THEN Len(value.items) <= n /\ \A i \in 1..Len(value.items) : AllArraysWithin(value.items[i], n)
    ELSE IF value.kind = "object"
    THEN \A i \in 1..Len(value.entries) : AllArraysWithin(value.entries[i].value, n)
    ELSE TRUE

\* C6: with forceBigQuery unset, no array anywhere in the returned payload
\* has more than 100 entries.
C6_EveryArrayBounded ==
    (tool = "run_graphql_query" /\ tpc = "done" /\ tret.kind = "return"
        /\ input.forceBigQuery # Some(TRUE)) =>
        AllArraysWithin(payload, 100)

\* Position i of doc lies in a comment (# up to the end of the line).
InComment(doc, i) ==
    \E j \in 1..i : doc[j] = "#" /\ \A k \in j..(i - 1) : doc[k] # "\n"

\* The selection-set nesting depth at position i.
Depth(doc, i) ==
    Cardinality({j \in 1..(i - 1) : doc[j] = "{" /\ ~InComment(doc, j)})
        - Cardinality({j \in 1..(i - 1) : doc[j] = "}" /\ ~InComment(doc, j)})

IsNameChar(ch) == ch \notin {" ", "\n", "\t", "\r", ",", "#", "{", "}", "(", ")", ":", "$"}

\* The document, read by GraphQL's lexical rules (white space and comments
\* ignored, keywords in lower case), defines a mutation operation: the name
\* token mutation stands at the top level.
IsMutationDocument(doc) ==
    \E a \in 1..Len(doc) :
        /\ Len(doc) >= a + Len(KwMutation) - 1
        /\ SubSeq(doc, a, a + Len(KwMutation) - 1) = KwMutation
        /\ ~InComment(doc, a)
        /\ Depth(doc, a) = 0
        /\ a > 1 => ~IsNameChar(doc[a - 1])
        /\ Len(doc) >= a + Len(KwMutation) => ~IsNameChar(doc[a + Len(KwMutation)])

\* C7: no document that run_graphql_query hands to makeGqlRequest is a
\* mutation operation.
C7_NoMutationExecuted ==
    tool \in QueryTools =>
        \A i \in 1..Len(sent) : ~IsMutationDocument(sent[i].query)

\* C8: run_graphql_query rejects a document on the role check, and
\* run_graphql_mutation accepts it, exactly when it begins (leading white
\* space trimmed, lower-cased) with 'mutation'; otherwise run_graphql_query
\* accepts it and run_graphql_mutation rejects it.
C8_RoleCheckComplementary ==
    /\ (tool \in QueryTools /\ tpc # "idle") =>
          /\ (tret = ReadOnlyError /\ sent = << >>) <=> BeginsWithMutationKeyword(input.query)
          /\ (tool # "run_graphql_query/limit" /\ ~BeginsWithMutationKeyword(input.query)) =>
                Len(sent) = 1
    /\ (tool = "run_graphql_mutation" /\ tpc # "idle") =>
          /\ (tret = NotMutationError /\ sent = << >>) <=> ~BeginsWithMutationKeyword(input.mutation)
          /\ BeginsWithMutationKeyword(input.mutation) => Len(sent) = 1

\* run_graphql_mutation accepted " MUTATION{a}", which run_graphql_query
\* rejects.
C8_Witness ==
    /\ tool = "run_graphql_mutation"
    /\ input.mutation = Space \o MutationOpUpper
    /\ Len(sent) = 1
    /\ QueryRoleViolation(input.mutation)

\* C9: a call rejected on the role check has passed nothing to
\* makeGqlRequest, and what a call passes is its document, verbatim, once.
C9_RoleCheckBeforeNetwork ==
    tpc # "idle" =>
        /\ tret \in {ReadOnlyError, NotMutationError} => sent = << >>
        /\ Len(sent) <= 1
        /\ \A i \in 1..Len(sent) : sent[i].query = CallDocument

\* A document with white space around it was forwarded as it is.
C9_Witness ==
    /\ tpc = "done"
    /\ Len(sent) = 1
    /\ sent[1].query = CallDocument
    /\ Trim(CallDocument) # CallDocument

\* C10: with forceBigQuery true the payload is the backend's response itself
\* and the text returned is its serialisation.
C10_OverrideReturnsUnchanged ==
    (tool = "run_graphql_query" /\ tpc = "done" /\ input.forceBigQuery = Some(TRUE)
        /\ tsettled.kind = "data") =>
        /\ payload = tsettled.data
        /\ tret = Return(TextResult(tsettled.data))

\* A response with an array of more than 100 entries was returned whole.
C10_Witness ==
    /\ tool = "run_graphql_query"
    /\ tpc = "done"
    /\ input.forceBigQuery = Some(TRUE)
    /\ tret.kind = "return"
    /\ ~AllArraysWithin(payload, 100)

\* The trimming tool returned a result, without the override, for a response
\* in which some array has more than 100 entries.
TrimmingOccurred ==
    /\ tool = "run_graphql_query"
    /\ tpc = "done"
    /\ tret.kind = "return"
    /\ input.forceBigQuery # Some(TRUE)
    /\ ~AllArraysWithin(tsettled.data, 100)

Keys(obj) == {obj.entries[i].key : i \in 1..Len(obj.entries)}

\* C11: when trimming occurred on an object response, every top-level key of
\* the response is in the payload with its own (possibly trimmed) value, and
\* the payload has no other key than those and _warning; this also when the
\* response has a top-level key _warning of its own.
C11_WarningAdditive ==
    (TrimmingOccurred /\ tsettled.data.kind = "object") =>
        /\ payload.kind = "object"
        /\ Keys(payload) = Keys(tsettled.data) \cup {"_warning"}
        /\ \A i \in 1..Len(tsettled.data.entries) :
              LET e == tsettled.data.entries[i]
              IN  Get(payload, e.key) = trimResult(e.value, <<e.key>>)

RECURSIVE TruncatedArrays(_, _)
\* The warning entries of the arrays of value that have more than 100
\* entries and lie in no such array, in document order, each with its path
\* from the root (at is the path of value, empty at the root): keys joined by
\* ".", indices as [i].
TruncatedArrays(value, at) ==
    IF value.kind = "array"
    THEN IF Len(value.items) > 100
         THEN <<at \o <<" (", ToString(Len(value.items)), " rows trimmed to 100)">> >>
         ELSE Concat([i \in 1..Len(value.items) |->
                        TruncatedArrays(value.items[i], at \o <<"[", ToString(i - 1), "]">>)])
    ELSE IF value.kind = "object"
    THEN Concat([i \in 1..Len(value.entries) |->
                   TruncatedArrays(value.entries[i].value,
                                   IF at = << >> THEN <<value.entries[i].key>>
                                   ELSE at \o <<".", value.entries[i].key>>)])
    ELSE << >>

\* The trimming tool returned a result, without the override, for an object
\* response.
TrimmedObjectResponse ==
    /\ tool = "run_graphql_query"
    /\ tpc = "done"
    /\ tret.kind = "return"
    /\ input.forceBigQuery # Some(TRUE)
    /\ tsettled.data.kind = "object"

\* C12: the payload carries _warning iff an array was truncated; the warning
\* lists one entry per truncated array, with its path from the root (keys
\* joined by ".", indices as [i], no root prefix) and its original length;
\* everything but the truncated arrays is unchanged.
C12_WarningMatchesTruncations ==
    TrimmedObjectResponse =>
        LET expected == TruncatedArrays(tsettled.data, << >>)
        IN  /\ expected = << >> => payload = tsettled.data
            /\ expected # << >> =>
                  /\ Get(payload, "_warning") = JStr(WarningText(expected))
                  /\ \A i \in 1..Len(tsettled.data.entries) :
                        LET e == tsettled.data.entries[i]
                        IN  e.key # "_warning" =>
                               Get(payload, e.key) = trimResult(e.value, <<e.key>>)

\* The request of the running tool failed in this step.
ToolRequestFailed ==
    /\ tpc = "awaiting"
    /\ tpc' = "done"
    /\ tsettled'.kind \in {"clientError", "error"}

\* A call of getIntrospectionSchema settled in this step, its request having
\* failed.
SchemaFetchFailed ==
    \E c \in Callers :
        /\ pc[c] = "awaiting"
        /\ pc'[c] = "done"
        /\ FetchFailed(settled'[ticket[c]])

\* C13: a step in which a tool's own request fails leaves the cached schema
\* as it is; the cache changes only in a step in which a schema fetch
\* settles, and becomes empty only when that fetch failed.
C13_QueryFailureKeepsCache ==
    [][/\ ToolRequestFailed => introspectionSchema' = introspectionSchema
       /\ introspectionSchema' # introspectionSchema =>
             \E c \in Callers : pc[c] = "awaiting" /\ pc'[c] = "done"
       /\ (introspectionSchema' # introspectionSchema /\ introspectionSchema' = JNull) =>
             SchemaFetchFailed]_vars

\* A tool's request failed while the cache held a schema, and the cache
\* holds it still.
C13_Witness ==
    /\ tpc = "done"
    /\ tsettled.kind \in {"clientError", "error"}
    /\ tret.kind = "throw"
    /\ introspectionSchema # JNull
    /\ introspectionSchema.obj \in Schemas

\* C14: aggregate_data with sum, avg, min or max and a missing or empty field
\* raises an error naming the function before any request; with count, or
\* with a field, the request is issued.
C14_AggregateFieldPrecondition ==
    (tool = "aggregate_data" /\ tpc # "idle") =>
        IF /\ input.aggregateFunction \in {"sum", "avg", "min", "max"}
           /\ (input.field = None \/ input.field = Some(<< >>))
        THEN /\ RejectedBeforeRequest
             /\ tsettled = Pending
             /\ Contains(tret.message, <<input.aggregateFunction>>)
        ELSE Len(sent) = 1

\* A sum over an empty field name was rejected before any request.
C14_Witness ==
    /\ tool = "aggregate_data"
    /\ input.aggregateFunction = "sum"
    /\ input.field = Some(<< >>)
    /\ tret.kind = "throw"
    /\ sent = << >>

\* The pieces of the synthesized documents that are white space.
BlankPieces == {" ", "\n      ", "\n        ", "\n          ", "\n    "}

IsSignificant(piece) == piece \notin BlankPieces

\* The document without its white space.
Significant(doc) == SelectSeq(doc, IsSignificant)

\* The document has an argument list, or a list of variable definitions,
\* with nothing in it: "(" followed by ")".
EmptyParentheses(doc) ==
    \E i \in 1..(Len(Significant(doc)) - 1) :
        Significant(doc)[i] = "(" /\ Significant(doc)[i + 1] = ")"

\* Parentheses and braces are balanced.
Balanced(doc, open, close) ==
    /\ \A i \in 1..Len(doc) :
          Cardinality({j \in 1..i : doc[j] = open}) >= Cardinality({j \in 1..i : doc[j] = close})
    /\ Cardinality({j \in 1..Len(doc) : doc[j] = open})
          = Cardinality({j \in 1..Len(doc) : doc[j] = close})

\* C15: the document aggregate_data sends is well formed: its parentheses
\* and braces are balanced and no parenthesised list is empty, so the root
\* field <table>_aggregate has an argument list only when it has an argument.
C15_AggregateDocumentValid ==
    (tool = "aggregate_data" /\ Len(sent) = 1) =>
        /\ Balanced(sent[1].query, "(", ")")
        /\ Balanced(sent[1].query, "{", "}")
        /\ ~EmptyParentheses(sent[1].query)

RECURSIVE Atoms(_)
\* The keys and scalars of a JSON value, as they would be written in text.
Atoms(value) ==
    IF value.kind = "object"
    THEN UNION {{value.entries[i].key} \cup Atoms(value.entries[i].value) :
                   i \in 1..Len(value.entries)}
    ELSE IF value.kind = "array"
    THEN UNION {Atoms(value.items[i]) : i \in 1..Len(value.items)}
    ELSE IF value.kind = "number" THEN {ToString(value.val)}
    ELSE { }

Pieces_of(doc) == {doc[i] : i \in 1..Len(doc)}

\* C16: the document aggregate_data sends selects { count } for count,
\* whatever the field, and { <function> { <field> } } otherwise; with a filter
\* it declares $filter: <table>_bool_exp!, passes where: $filter and binds
\* filter in the variables; without one it has none of the three; the filter
\* value is in the variables only, never in the document.
C16_AggregateShape ==
    (tool = "aggregate_data" /\ Len(sent) = 1) =>
        LET doc == sent[1].query
            bound == sent[1].variables.val
            selection ==
                IF input.aggregateFunction = "count"
                THEN <<"{", " ", "count", " ", "}">>
                ELSE <<"{", " ", input.aggregateFunction, " ", "{", " ">>
                         \o input.field.val \o <<" ", "}", " ", "}">>
        IN  /\ Contains(doc, <<"aggregate", " ">> \o selection \o <<"\n        ", "}">>)
            /\ Contains(doc, input.tableName \o <<"_aggregate", "(">>)
            /\ input.filter # None =>
                  /\ Contains(doc, <<"(", "$filter", ":", " ">> \o input.tableName
                                       \o <<"_bool_exp", "!", ")">>)
                  /\ Contains(doc, <<"(", "where", ":", " ", "$filter", ")">>)
                  /\ bound = JObj(<<Entry("filter", input.filter.val)>>)
                  /\ Pieces_of(doc) \cap Atoms(input.filter.val) = { }
            /\ input.filter = None =>
                  /\ Pieces_of(doc) \cap {"$filter", "where", "_bool_exp"} = { }
                  /\ bound = JObj(<< >>)

\* A count with a field and a filter was sent: the field is not selected and
\* the filter travels in the variables.
C16_Witness ==
    /\ tool = "aggregate_data"
    /\ Len(sent) = 1
    /\ input.aggregateFunction = "count"
    /\ input.field = Some(<<"n">>)
    /\ input.filter # None
    /\ Atoms(input.filter.val) # { }
    /\ Get(sent[1].variables.val, "filter") = input.filter.val

\* The current call and the earlier call h are calls of the same preview
\* tool for the same table, to which getIntrospectionSchema returned the
\* same schema.
SamePreview(h) ==
    /\ tool \in PreviewTools
    /\ tool = h.tool
    /\ input.tableName = h.input.tableName
    /\ tpc \in {"awaiting", "done"}
    /\ ret[ToolCaller].kind = "return"
    /\ ret[ToolCaller] = h.schema

\* The limit and offset a preview call binds: the supplied values, or the
\* defaults of the input schema.
SuppliedLimit == IF input.limit = None THEN 5 ELSE input.limit.val

SuppliedOffset == IF input.offset = None THEN 0 ELSE input.offset.val

\* C17: two preview calls of the same tool on the same schema and table send
\* the same document, whatever their limit and offset; the variables of a
\* call are exactly its limit (and its offset, in the paginated tool), and
\* the document does not contain their values.
C17_PreviewValuesBound ==
    /\ \A i \in 1..Len(history) :
          SamePreview(history[i]) =>
              /\ Len(sent) = Len(history[i].sent)
              /\ Len(sent) = 1 => sent[1].query = history[i].sent[1].query
    /\ (tool = "preview_table_data" /\ Len(sent) = 1) =>
          /\ sent[1].variables = Some(JObj(<<Entry("limit", JNum(SuppliedLimit))>>))
          /\ ToString(SuppliedLimit) \notin Pieces_of(sent[1].query)
    /\ (tool = "preview_table_data/paginated" /\ Len(sent) = 1) =>
          /\ sent[1].variables = Some(JObj(<<Entry("limit", JNum(SuppliedLimit)),
                                             Entry("offset", JNum(SuppliedOffset))>>))
          /\ {ToString(SuppliedLimit), ToString(SuppliedOffset)}
                 \cap Pieces_of(sent[1].query) = { }

\* Two paginated previews of one table with different limits and offsets
\* were both sent.
C17_Witness ==
    /\ Len(history) = 1
    /\ SamePreview(history[1])
    /\ tool = "preview_table_data/paginated"
    /\ Len(sent) = 1
    /\ Len(history[1].sent) = 1
    /\ input.limit # history[1].input.limit
    /\ input.offset # history[1].input.offset
    /\ sent[1].variables # history[1].sent[1].variables

RECURSIVE InnermostKind(_)
\* The kind of a type reference below all its wrappers.
InnermostKind(ref) ==
    IF Get(ref, "ofType").kind = "object" THEN InnermostKind(Get(ref, "ofType"))
    ELSE Get(ref, "kind").str[1]

\* Every wrapper of the reference wraps a type.
RECURSIVE WellFormedRef(_)
WellFormedRef(ref) ==
    IF Get(ref, "kind").str[1] \in {"NON_NULL", "LIST"}
    THEN Get(ref, "ofType").kind = "object" /\ WellFormedRef(Get(ref, "ofType"))
    ELSE Get(ref, "name").kind = "string"

\* The OBJECT types of the schema that have the name of the previewed table.
PreviewedTypes ==
    {t \in {TypesOf(ret[ToolCaller].value.obj)[i] :
               i \in 1..Len(TypesOf(ret[ToolCaller].value.obj))} :
        Get(t, "kind").str = <<"OBJECT">> /\ Get(t, "name").str = input.tableName}

\* The names of the fields of type t whose innermost kind is SCALAR or ENUM,
\* in the order of t's fields.
ProjectableNames(t) ==
    LET fields == Get(t, "fields").items
        keep == {i \in 1..Len(fields) : InnermostKind(Get(fields[i], "type")) \in {"SCALAR", "ENUM"}}
        nth(k) == CHOOSE i \in keep : Cardinality({j \in keep : j <= i}) = k
    IN  [k \in 1..Cardinality(keep) |-> Get(fields[nth(k)], "name").str]

\* The text of a document from the brace that opens its innermost selection
\* set, for the selection of these names.
SelectionText(names) ==
    <<")", " ", "{", " ">>
        \o Join(IF names = << >> THEN << <<"__typename">> >> ELSE names, <<"\n          ">>)
        \o <<" ", "}", " ", "}">>

\* C18: a preview of an OBJECT type whose fields have well-formed types is
\* sent, and the selection set of its document is the names of the fields
\* whose innermost kind is SCALAR or ENUM, in the order of the type's fields,
\* or __typename alone when there is none; a second preview of the same type
\* on the same schema selects the same.
C18_FieldProjection ==
    /\ (tool \in PreviewTools /\ tpc \in {"awaiting", "done"} /\ ret[ToolCaller].kind = "return") =>
          \A t \in PreviewedTypes :
              (\A i \in 1..Len(Get(t, "fields").items) :
                   WellFormedRef(Get(Get(t, "fields").items[i], "type"))) =>
                  /\ Len(sent) = 1
                  /\ EndsWith(sent[1].query, SelectionText(ProjectableNames(t)))
    /\ \A i \in 1..Len(history) :
          (SamePreview(history[i]) /\ Len(sent) = 1 /\ Len(history[i].sent) = 1) =>
              \E names \in {ProjectableNames(t) : t \in PreviewedTypes} :
                  /\ EndsWith(sent[1].query, SelectionText(names))
                  /\ EndsWith(history[i].sent[1].query, SelectionText(names))

\* A preview of t selected four of its six fields (wrapped scalars and enums
\* among them), after a preview of u that selected __typename alone.
C18_Witness ==
    /\ Len(history) = 1
    /\ history[1].input.tableName = TableU
    /\ Len(history[1].sent) = 1
    /\ EndsWith(history[1].sent[1].query, SelectionText(<< >>))
    /\ tool \in PreviewTools
    /\ input.tableName = TableT
    /\ Len(sent) = 1
    /\ EndsWith(sent[1].query,
                SelectionText(<< <<"i", "d">>, <<"k">>, <<"t", "a", "g", "s">>, <<"n">> >>))

\* Some field of the type has a wrapper chain that ends without a named
\* type.
HasMalformedField(type) ==
    /\ Get(type, "fields").kind = "array"
    /\ \E i \in 1..Len(Get(type, "fields").items) :
          ~WellFormedRef(Get(Get(type, "fields").items[i], "type"))

\* The call ended by signalling that the schema is malformed: it raised, and
\* what it raised is not the TypeError of a property read.
SignalsMalformed ==
    /\ tpc = "done"
    /\ tret.kind = "throw"
    /\ tret.message[1] # "Cannot read properties of "

\* C19: describe_table, given a described type in which a field's wrapper
\* chain ends without a named type, and preview_table_data, given such a
\* type in the schema, end by signalling an error: they produce no type
\* string, send no preview, and raise no unrelated exception.
C19_MalformedChainsRejected ==
    /\ (tool = "describe_table" /\ tpc = "done" /\ tsettled.kind = "data"
           /\ tsettled.data.kind = "object"
           /\ Get(tsettled.data, "__type").kind = "object"
           /\ HasMalformedField(Get(tsettled.data, "__type"))) =>
          SignalsMalformed
    /\ (tool \in PreviewTools /\ tpc \in {"awaiting", "done"} /\ ret[ToolCaller].kind = "return"
           /\ \E t \in PreviewedTypes : HasMalformedField(t)) =>
          SignalsMalformed /\ sent = << >>

\* The schema getIntrospectionSchema returned to the tool call.
SchemaRead == ret[ToolCaller].value.obj

\* The names of the types of a schema that are of kind OBJECT, end with
\* _root, are not declared as a root type and do not begin with __.
SuspectNames(schema) ==
    LET types == {TypesOf(schema)[i] : i \in 1..Len(TypesOf(schema))}
        declared == {Get(schema, k) : k \in {"queryType", "mutationType", "subscriptionType"}}
    IN  {Get(t, "name").str :
            t \in {u \in types :
                      /\ Get(u, "kind").str = <<"OBJECT">>
                      /\ EndsWith(Get(u, "name").str, <<"_", "r", "o", "o", "t">>)
                      /\ SubSeq(Get(u, "name").str, 1, 2) # <<"_", "_">>
                      /\ \A d \in declared :
                            d.kind = "object" => Get(d, "name").str # Get(u, "name").str}}

\* The names a returned result reports as unsupported.
ReportedNames ==
    LET reported == Get(payload, "unsupportedTypes")
    IN  IF reported.kind = "undefined" THEN { }
        ELSE {IF reported.items[i].kind = "string" THEN reported.items[i].str
              ELSE Get(reported.items[i], "name").str : i \in 1..Len(reported.items)}

\* Every entry of check_unsupported_root_types carries the number of fields
\* of an OBJECT type of its name.
CountsReported ==
    LET reported == Get(payload, "unsupportedTypes").items
    IN  \A i \in 1..Len(reported) :
            \E j \in 1..Len(TypesOf(SchemaRead)) :
                /\ Get(TypesOf(SchemaRead)[j], "name") = Get(reported[i], "name")
                /\ Get(TypesOf(SchemaRead)[j], "kind").str = <<"OBJECT">>
                /\ Get(reported[i], "fieldCount")
                       = JNum(Len(Get(TypesOf(SchemaRead)[j], "fields").items))

\* C20: a root-type tool that returns reports exactly the types of the schema
\* it read that are of kind OBJECT, end with _root, are not the declared
\* query, mutation or subscription type and do not begin with __;
\* check_unsupported_root_types gives each with its number of fields, and its
\* hasUnsupportedTypes is true exactly when there is one.
C20_RootTypeSuspicion ==
    (tool \in RootTools /\ tpc = "done" /\ tret.kind = "return") =>
        /\ ReportedNames = SuspectNames(SchemaRead)
        /\ tool = "check_unsupported_root_types" =>
              /\ CountsReported
              /\ Get(payload, "hasUnsupportedTypes") = JBool(SuspectNames(SchemaRead) # { })
        /\ tool = "list_root_fields" =>
              (Get(payload, "warning").kind = "string" <=> SuspectNames(SchemaRead) # { })

C20_Witness ==
    /\ tool = "check_unsupported_root_types"
    /\ tpc = "done"
    /\ tret.kind = "return"
    /\ SchemaRead = SchemaRoots
    /\ Get(payload, "hasUnsupportedTypes") = JBool(TRUE)
    /\ Get(payload, "unsupportedTypes")
           = JArr(<<JObj(<<Entry("name", JStr(WRoot)), Entry("fieldCount", JNum(2))>>),
                    JObj(<<Entry("name", JStr(QRoot)), Entry("fieldCount", JNum(2))>>)>>)

\* The probe of the health check failed: the request was rejected, or the
\* HTTP status is outside 200..299.
ProbeFailed ==
    \/ tsettled.kind \in {"clientError", "error"}
    \/ tsettled.kind = "response" /\ tsettled.status \notin 200..299

\* The last request of the tool call was rejected, or its schema fetch was.
OperationFailed ==
    \/ tsettled.kind \in {"clientError", "error"}
    \/ ticket[ToolCaller] > 0 /\ ret[ToolCaller].kind = "throw"

\* C21: health_check always returns, and when its probe failed it returns the
\* text "Health check failed: ..." with isError false; every other tool whose
\* request or schema fetch failed raises instead of returning.
C21_FailuresAreDataOnlyForHealth ==
    /\ (tool = "health_check" /\ tpc = "done") =>
          /\ tret.kind = "return"
          /\ ProbeFailed =>
                /\ tret.value.content[1].text[1] = "Health check failed: "
                /\ "isError" \in DOMAIN tret.value
                /\ tret.value.isError = FALSE
          /\ ~ProbeFailed => tret.value.content[1].text[1] = "Health check successful. "
    /\ (tool \notin {"none", "health_check"} /\ tpc = "done" /\ OperationFailed) =>
          tret.kind = "throw"

C21_Witness ==
    /\ tool = "health_check"
    /\ tpc = "done"
    /\ input.healthEndpointUrl.present
    /\ tsettled = ResponseOutcome(503, "Service Unavailable")
    /\ tret = Return(HealthFailure(<<"Health endpoint ", "http://hasura/healthz", " status: ",
                                     "503", " ", "Service Unavailable">>))

\* The tool call ended with the not-found error of its tool.
NotFoundRaised ==
    /\ tpc = "done"
    /\ tret.kind = "throw"
    /\ IF tool \in PreviewTools THEN tret = TableNotFound(input.tableName)
       ELSE IF tool = "describe_graphql_type" THEN tret = TypeNotFound(input.typeName)
       ELSE IF tool = "describe_table" THEN tret = DescribeNotFound(input.tableName)
       ELSE FALSE

\* C22: a preview_table_data, describe_graphql_type or describe_table call
\* that raises its not-found error has invoked the request function for no
\* data or type query.
C22_ValidationBeforeNetwork == NotFoundRaised => sent = << >>

\* The messages of a list of errors, each after the first preceded by ", ".
JoinedBy(errors) ==
    LET f[i \in 1..Len(errors)] ==
            IF i = 1 THEN errors[1] ELSE f[i - 1] \o <<", ">> \o errors[i]
    IN  f[Len(errors)]

\* C23: a tool call whose request was rejected raises; when the rejection
\* carries a list of backend errors, the message raised begins
\* "GraphQL operation failed: " and contains the messages of all of them, in
\* order, joined by ", ".
C23_BackendErrorsSurfaced ==
    (tpc = "done" /\ tsettled.kind \in {"clientError", "error"}) =>
        /\ tret.kind = "throw"
        /\ (tsettled.kind = "clientError" /\ tsettled.hasErrors /\ tsettled.errors # << >>) =>
              /\ tret.message[1] = "GraphQL operation failed: "
              /\ Includes(tret.message, JoinedBy(tsettled.errors))

C23_Witness ==
    /\ tpc = "done"
    /\ tsettled = ClientErrorOutcome(TRUE, << <<"e1">>, <<"e2">>, <<"e1">> >>)
    /\ tret = Throw(<<"GraphQL operation failed: ", "e1", ", ", "e2", ", ", "e1">>)

\* The schema without its suspect types.
WithoutSuspects(schema) ==
    SetKey(schema, "types",
           JArr(SelectSeq(TypesOf(schema),
                          LAMBDA t : Get(t, "name").str \notin SuspectNames(schema))))

ListingKeys == {"fields", "totalCount", "filteredCount", "returnedCount", "offset", "limit"}

\* C24: a list_root_fields call that got a schema returns, with the fields,
\* counts and pagination it would return for the same schema without the
\* suspect types; warning and unsupportedTypes are in the result exactly
\* when the schema has a suspect type.
C24_SuspectsNeverBlockListing ==
    (tool = "list_root_fields" /\ tpc = "done" /\ ret[ToolCaller].kind = "return") =>
        /\ tret.kind = "return"
        /\ \A k \in ListingKeys :
              Get(payload, k) = Get(ListPlan(WithoutSuspects(SchemaRead), input).value, k)
        /\ Keys(payload) \ ListingKeys =
              IF SuspectNames(SchemaRead) = { } THEN { } ELSE {"warning", "unsupportedTypes"}

C24_Witness ==
    /\ tool = "list_root_fields"
    /\ tpc = "done"
    /\ tret.kind = "return"
    /\ SchemaRead = SchemaRoots
    /\ ~input.filter.present
    /\ Get(payload, "totalCount") = JNum(2)
    /\ Get(payload, "warning").kind = "string"
    /\ Get(payload, "unsupportedTypes") = JArr(<<JStr(WRoot), JStr(QRoot)>>)

RECURSIVE InnermostName(_)
\* The name of a type reference below all its wrappers.
InnermostName(ref) ==
    IF Get(ref, "ofType").kind = "object" THEN InnermostName(Get(ref, "ofType"))
    ELSE Get(ref, "name").str

RECURSIVE HasListLayer(_)
\* Some wrapper of the reference is a LIST.
HasListLayer(ref) ==
    \/ Get(ref, "kind").str = <<"LIST">>
    \/ Get(ref, "ofType").kind = "object" /\ HasListLayer(Get(ref, "ofType"))

\* The display string of a type reference: [name] when the chain has a LIST
\* layer, with ! after it when the outermost wrapper is NON_NULL.
DisplayString(ref) ==
    (IF HasListLayer(ref) THEN <<"[">> \o InnermostName(ref) \o <<"]">> ELSE InnermostName(ref))
        \o (IF Get(ref, "kind").str = <<"NON_NULL">> THEN <<"!">> ELSE << >>)

\* C25: every column of a describe_table result whose type the backend gave
\* as a well-formed chain is rendered as its display string: in brackets
\* exactly when the chain has a LIST layer, followed by ! exactly when the
\* outermost wrapper is NON_NULL.
C25_DisplayString ==
    (tool = "describe_table" /\ tpc = "done" /\ tret.kind = "return") =>
        LET described == Get(Get(tsettled.data, "__type"), "fields").items
            columns == Get(Get(payload, "table"), "columns").items
        IN  \A i \in 1..Len(described), j \in 1..Len(columns) :
                (/\ Get(columns[j], "name") = Get(described[i], "name")
                 /\ WellFormedRef(Get(described[i], "type")))
                    => Get(columns[j], "type") = JStr(DisplayString(Get(described[i], "type")))

\* C26: once the cache holds a schema, no step of any getIntrospectionSchema
\* call empties it, and no step issues another introspection request.
C26_PopulatedCacheStays ==
    [][introspectionSchema # JNull =>
          /\ introspectionSchema' # JNull
          /\ fetchCount' = fetchCount]_vars

\* The fields of the root types a list_root_fields call selects: those of
\* the declared query, mutation and subscription types, or of the one
\* fieldType names, in that order.
SelectedFields(schema, fieldType) ==
    LET of(property, kind) ==
            IF /\ Get(schema, property).kind = "object"
               /\ fieldType.present => fieldType.val = kind
            THEN LET named == {i \in 1..Len(TypesOf(schema)) :
                                  Get(TypesOf(schema)[i], "name")
                                      = Get(Get(schema, property), "name")}
                 IN  IF named = { } THEN << >>
                     ELSE Get(TypesOf(schema)[CHOOSE i \in named : \A j \in named : i <= j],
                              "fields").items
            ELSE << >>
    IN  of("queryType", <<"Q", "U", "E", "R", "Y">>)
            \o of("mutationType", <<"M", "U", "T", "A", "T", "I", "O", "N">>)
            \o of("subscriptionType", <<"S", "U", "B", "S", "C", "R", "I", "P", "T", "I", "O", "N">>)

\* The name and the description a field is listed with.
Listed(f) ==
    [name |-> Get(f, "name").str,
     description |-> IF Get(f, "description").kind = "string" THEN Get(f, "description").str
                     ELSE <<"N", "o", " ", "d", "e", "s", "c", "r", "i", "p", "t", "i", "o",
                            "n", ".">>]

\* part occurs in str, letter case apart.
OccursIn(part, str) ==
    \E i \in 1..(Len(str) - Len(part) + 1) :
        \A k \in 1..Len(part) : LowerChar(str[i + k - 1]) = LowerChar(part[k])

\* The positions in all of the fields that match the filter.
Matching(all, filter) ==
    {i \in 1..Len(all) :
        filter.present =>
            \/ OccursIn(filter.val, Listed(all[i]).name)
            \/ OccursIn(filter.val, Listed(all[i]).description)}

Min(a, b) == IF a < b THEN a ELSE b

Max(a, b) == IF a > b THEN a ELSE b

\* C27: the result of list_root_fields has totalCount the number of fields
\* of the selected root types, filteredCount the number of them that match
\* the filter on name or description, fields the name-sorted matches at
\* positions [offset, offset + limit), and returnedCount
\* max(0, min(limit, filteredCount - offset)), the length of fields.
C27_PaginationCounts ==
    (tool = "list_root_fields" /\ tpc = "done" /\ tret.kind = "return") =>
        LET all == SelectedFields(SchemaRead, input.fieldType)
            matching == Matching(all, input.filter)
            limit == IF input.limit.present THEN input.limit.val ELSE 10
            offset == IF input.offset.present THEN input.offset.val ELSE 0
            page == Get(payload, "fields").items
            before(n) == Cardinality({i \in matching : Before(Listed(all[i]).name, n)})
            upTo(n) == Cardinality({i \in matching : ~Before(n, Listed(all[i]).name)})
        IN  /\ Get(payload, "totalCount") = JNum(Len(all))
            /\ Get(payload, "filteredCount") = JNum(Cardinality(matching))
            /\ Cardinality(matching) <= Len(all)
            /\ Get(payload, "returnedCount")
                   = JNum(Max(0, Min(limit, Cardinality(matching) - offset)))
            /\ Get(payload, "returnedCount") = JNum(Len(page))
            /\ Get(payload, "limit") = JNum(limit)
            /\ Get(payload, "offset") = JNum(offset)
            /\ \A j \in 1..Len(page) :
                  /\ \E i \in matching :
                        /\ Get(page[j], "name").str = Listed(all[i]).name
                        /\ Get(page[j], "description").str = Listed(all[i]).description
                  /\ before(Get(page[j], "name").str) <= offset + j - 1
                  /\ offset + j - 1 < upTo(Get(page[j], "name").str)

\* Five fields of which the filter matches two, and the page of one that
\* starts at the second.
C27_Witness ==
    /\ tool = "list_root_fields"
    /\ tpc = "done"
    /\ tret.kind = "return"
    /\ input.filter = Some(<<"u">>)
    /\ input.offset = Some(1)
    /\ input.limit = Some(1)
    /\ Get(payload, "totalCount") = JNum(5)
    /\ Get(payload, "filteredCount") = JNum(2)
    /\ Get(payload, "returnedCount") = JNum(1)
    /\ Get(Get(payload, "fields").items[1], "name") = JStr(<<"u">>)

\* C28: trimming the trimmed value of a response the trimming tool returned
\* changes nothing and records no truncation.
C28_TrimIdempotent ==
    (tool = "run_graphql_query" /\ tpc = "done" /\ tret.kind = "return"
        /\ input.forceBigQuery # Some(TRUE)) =>
        LET once == trimResult(tsettled.data, <<"root">>)
        IN  /\ trimResult(once, <<"root">>) = once
            /\ trimmedFields(once, <<"root">>) = << >>

====
